---- MODULE Spec2Model ----
(***************************************************************************)
(* StreamFlow: the playback queue state machine of MusicPlayer             *)
(* (src/server.js) with the UI handlers that drive it, and the response    *)
(* cache, search aggregator and stream resolution of APIManager            *)
(* (src/api-manager.js) and the liked store of DatabaseManager             *)
(* (src/server/database.js).  Each component has its own specification     *)
(* over its own variables; the other variables stay at their initial       *)
(* values.  Indices are 0-based as in the JavaScript source; the element   *)
(* at index i of a TLA+ sequence q is q[i + 1].                            *)
(***************************************************************************)
EXTENDS Integers, Sequences, FiniteSets, Bags, TLC

(* ------------------------------ bounds --------------------------------- *)
\* longest queue explored
MaxQueue == 2
\* most playTrack calls suspended at once
MaxPending == 1
\* the clock is followed over this many cache lifetimes
MaxPeriods == 1
\* most fetchWithCache calls awaiting the network at once
MaxInflight == 2
\* longest result list a search provider returns
MaxResults == 2
\* most database transactions open at once
MaxTxns == 2
\* most playlist calls in progress at once
MaxCalls == 2
\* most playlists ever created
MaxPlaylists == 1
\* most searches ever saved
MaxSearches == 4
\* most searches ever saved where the retention sweep is followed
MaxSwept == 2
\* most pending actions ever queued
MaxActions == 3
\* most play-now calls suspended at once where their overlap is followed
MaxOverlap == 2
\* longest list a trending provider returns
MaxTrending == 11
\* Math.random() is followed to this many equal steps of [0, 1)
RandomGrain == 4

(* ------------------------------ values --------------------------------- *)
\* Track value type: identity is the (source, id) pair.
YT == [id |-> "v1", source |-> "youtube"]
AU == [id |-> "a1", source |-> "audius"]
Tracks == {YT, AU}

\* queue[i] for i outside the array: JavaScript's undefined.
Undefined == [id |-> "undefined", source |-> "undefined"]
\* this.currentTrack = null
Null == [id |-> "null", source |-> "null"]

\* positions the audio element reports, in seconds
TimeValues == {0, 3, 4}
\* a known media duration, in seconds (0 stands for "not known yet")
KnownDuration == 1

VARIABLES
    queue,            \* this.queue
    queueIndex,       \* this.queueIndex
    currentTrack,     \* this.currentTrack
    shuffle,          \* this.shuffle
    repeatMode,       \* this.repeatMode
    currentTime,      \* this.currentTime (mirror of audio.currentTime)
    duration,         \* this.duration (mirror of audio.duration)
    audioSrc,         \* this.audio.src: "" or "url"
    audioCurrentTime, \* this.audio.currentTime
    pending,          \* playTrack calls suspended at await getStreamURL
    last,             \* the handler that ran last: its name, its arguments
                      \* and the cursor it started from
    notified,         \* the queue panel as ui.updateQueue rendered it last
    cache,            \* APIManager.cache: cache key -> {data, timestamp}
    now,              \* Date.now(), in milliseconds
    inflight,         \* cache keys of the fetchWithCache calls awaiting the
                      \* network (a bag: calls for one key may overlap)
    sFilter,          \* search(): its source argument ("none": no call yet)
    issued,           \* search(): providers whose promise was pushed
    settledOrder,     \* search(): those providers, in the order they settled
    responses,        \* what each provider's request came back with
    results,          \* search(): the local object `results`
    returned,         \* the promise search() returned: its state and value
    resolving,        \* the getStreamURL call of the playTrack in progress:
                      \* its track, the resolver it dispatched to, the
                      \* resolver's argument, and how far the call has got
    stream,           \* the promise getStreamURL returned, with what the
                      \* network answered
    toast,            \* the toast the last playTrack showed ("": none)
    started,          \* the playTrack calls past their stream URL: the
                      \* track of each and the await it is suspended at
    liked,            \* the 'liked' object store: key -> record
    txns,             \* the open transactions on it, oldest first; IndexedDB
                      \* runs transactions of overlapping scope in the order
                      \* they were created
    toggled,          \* per key, what the last toggleLike to return returned
    parity,           \* per key, the number of toggleLike calls that have
                      \* returned, modulo 2
    answer,           \* the database promise that settled last
    playlists,        \* the 'playlists' object store: key -> record
    keyGenerator,     \* its autoIncrement key generator
    ptxns,            \* the open transactions on it, oldest first
    pcalls,           \* the addToPlaylist / updatePlaylist calls: arguments,
                      \* locals, position, and the promise returned
    history,          \* the 'history' object store: key -> record
    searchHistory,    \* the 'searchHistory' object store: key -> record
    searchKey,        \* its autoIncrement key generator
    date,             \* Date.now() as the history stores see it, in days
    sweep,            \* the cleanup() transaction: how far it has got, its
                      \* bound, when it was called and what it found
    found,            \* what the last search history operation returned
    played,           \* the addToHistory / getPlayHistory promise that
                      \* settled last
    offlineTracks,    \* the 'offlineTracks' object store: key -> record
    downloads,        \* the 'downloads' object store: key -> record
    staged,           \* both stores as the running transaction sees them
    otxns,            \* the open transactions on them, oldest first, each
                      \* with the requests it has still to run
    pendingActions,   \* the 'pendingActions' object store: key -> record
    actionKey,        \* its autoIncrement key generator
    sync,             \* the service worker's syncQueue call: how far it has
                      \* got, how it ended, the actions it passed to
                      \* processAction and those whose replay succeeded
    saved,            \* the saveOfflineTrack / deleteDownload promise that
                      \* settled last, with the store whose request failed
                      \* and the stores its transaction found
    reply,            \* what the last cache step did: the operation, its
                      \* key, the data returned or loaded, how the loader
                      \* ended, and whether the key had a fresh entry when
                      \* the step began
    finished,         \* the two play-now calls that resumed last, oldest
                      \* first: the track of each, whether its stream URL
                      \* came, how many other calls were suspended and how
                      \* long the queue was when it resumed
    trending,         \* the promise getTrending() returned: state and value
    trendResponses    \* what each trending provider's request came back with

vars == <<queue, queueIndex, currentTrack, shuffle, repeatMode, currentTime,
          duration, audioSrc, audioCurrentTime, pending, last>>

queueVars == <<queue, queueIndex>>
modeVars == <<shuffle, repeatMode>>
audioVars == <<currentTrack, audioSrc, audioCurrentTime>>
mirrorVars == <<currentTime, duration>>
\* the state outside the player
uiVars == <<notified>>
cacheVars == <<cache, now, inflight, reply>>
\* the state of APIManager and DatabaseManager
searchVars == <<sFilter, issued, settledOrder, responses, results, returned>>
trendingVars == <<trending, trendResponses>>
overlapVars == <<finished>>
streamVars == <<resolving, stream, toast, started>>
dbVars == <<liked, txns, toggled, parity, answer>>
playlistVars == <<playlists, keyGenerator, ptxns, pcalls>>
\* the object stores other than 'liked'
historyVars ==
    <<history, searchHistory, searchKey, date, sweep, found, played>>
offlineVars == <<offlineTracks, downloads, staged, otxns, saved>>
syncVars == <<pendingActions, actionKey, sync>>
storeVars == <<playlistVars, historyVars, offlineVars, syncVars>>
backendVars ==
    <<cacheVars, searchVars, trendingVars, overlapVars, streamVars, dbVars,
      storeVars>>
outsideVars == <<uiVars, backendVars>>
allVars == <<vars, outsideVars>>

Op(name, x, y) == [op |-> name, a |-> x, b |-> y, idx |-> queueIndex]
\* a handler no property singles out
Other == [op |-> "other", a |-> -1, b |-> -1, idx |-> -1]

\* q[i] in JavaScript
At(q, i) == IF i >= 0 /\ i < Len(q) THEN q[i + 1] ELSE Undefined

\* q after q.splice(index, 1), for an in-range index
SpliceOut(q, index) ==
    [k \in 1..(Len(q) - 1) |-> IF k <= index THEN q[k] ELSE q[k + 1]]

\* q after q.splice(index, 0, x), for 0 <= index <= q.length
SpliceIn(q, index, x) ==
    [k \in 1..(Len(q) + 1) |->
        IF k <= index THEN q[k] ELSE IF k = index + 1 THEN x ELSE q[k - 1]]

\* the queue panel before the first updateQueue: no row
UiIdle == notified = [queue |-> <<>>, playing |-> -1]

\* no data: the value of a reply that carries none
NoData == "none"
\* new APIManager(): an empty Map; the clock starts at 0
CacheIdle ==
    /\ cache = [k \in {} |-> NoData]
    /\ now = 0
    /\ inflight = EmptyBag
    /\ reply = [op |-> "constructor", key |-> NoData, data |-> NoData,
                loader |-> NoData, fresh |-> FALSE]

\* the providers, in the order mergeResults visits them
Providers == <<"youtube", "soundcloud", "audius">>
ProviderSet == {Providers[r] : r \in 1..Len(Providers)}
\* a request that has not come back
NoResponse == [ok |-> FALSE, items |-> <<>>, back |-> FALSE]

\* no search() call made yet
SearchIdle ==
    /\ sFilter = "none"
    /\ issued = {}
    /\ settledOrder = <<>>
    /\ responses = [p \in ProviderSet |-> NoResponse]
    /\ results = [p \in ProviderSet |-> <<>>]
    /\ returned = [state |-> "none", value |-> <<>>]

\* the providers getTrending asks
TrendingProviders == {"youtube", "audius"}

\* no getTrending() call made yet
TrendingIdle ==
    /\ trending = [state |-> "none", value |-> <<>>]
    /\ trendResponses = [p \in TrendingProviders |-> NoResponse]

\* no getStreamURL call made yet
StreamIdle ==
    /\ resolving = [track |-> Null, resolver |-> "none", arg |-> "",
                    stage |-> "idle"]
    /\ stream = [state |-> "none", value |-> "", net |-> "none"]
    /\ toast = ""
    /\ started = <<>>

\* `${track.source}_${track.id}`
LikedKey(track) == track.source \o "_" \o track.id
LikedKeys == {LikedKey(track) : track \in Tracks}

\* a database just created: empty stores, no transaction
DbIdle ==
    /\ liked = [k \in {} |-> NoData]
    /\ txns = <<>>
    /\ toggled = [k \in LikedKeys |-> "none"]
    /\ parity = [k \in LikedKeys |-> 0]
    /\ answer = [op |-> "init", key |-> "", state |-> "none", value |-> FALSE]

\* keys a playlist call may name; the last one is never generated
PlaylistIds == 1..(MaxPlaylists + 1)
CallIds == 1..MaxCalls
\* request.result of a get that found nothing (undefined), as a record
NoRecord == [id |-> 0, tracks |-> <<>>, modified |-> 0]
\* no call
NoCall ==
    [op |-> "none", id |-> 0, track |-> YT, tracks |-> <<>>, seen |-> <<>>,
     pc |-> "done", state |-> "none", value |-> FALSE, error |-> ""]

PlaylistIdle ==
    /\ playlists = [k \in {} |-> NoRecord]
    /\ keyGenerator = 0
    /\ ptxns = <<>>
    /\ pcalls = [c \in CallIds |-> NoCall]

\* an entry of 'history' or 'searchHistory', as far as the sweep and the
\* de-duplication read it
NoEntry == [id |-> 0, query |-> "", timestamp |-> 0]
NoPlay == [id |-> "", trackId |-> "", timestamp |-> 0]

HistoryIdle ==
    /\ history = [k \in {} |-> NoPlay]
    /\ searchHistory = [k \in {} |-> NoEntry]
    /\ searchKey = 0
    /\ date = 0
    /\ sweep = [state |-> "idle", bound |-> 0, at |-> 0,
                history |-> [k \in {} |-> NoPlay],
                searchHistory |-> [k \in {} |-> NoEntry]]
    /\ found = [op |-> "init", limit |-> 0, value |-> <<>>]
    /\ played = [op |-> "init", state |-> "none", track |-> Null,
                 limit |-> 0, value |-> <<>>]

\* an offline blob record / a download record, as far as their key and the
\* blob they were written from
NoBlob == [id |-> "", blob |-> 0]
NoDownload == [id |-> "", size |-> 0]
NoStores ==
    [offlineTracks |-> [k \in {} |-> NoBlob],
     downloads |-> [k \in {} |-> NoDownload]]

OfflineIdle ==
    /\ offlineTracks = NoStores.offlineTracks
    /\ downloads = NoStores.downloads
    /\ staged = NoStores
    /\ otxns = <<>>
    /\ saved = [op |-> "init", key |-> "", state |-> "none", failed |-> "",
                before |-> NoStores]

\* a pending action, as far as its key and its type
NoAction == [id |-> 0, type |-> ""]

SyncIdle ==
    /\ pendingActions = [k \in {} |-> NoAction]
    /\ actionKey = 0
    /\ sync = [state |-> "none", error |-> "", attempted |-> {},
               replayed |-> {}]

PlayerIdle ==
    /\ queue = <<>>
    /\ queueIndex = -1
    /\ currentTrack = Null
    /\ shuffle = FALSE
    /\ repeatMode = "none"
    /\ currentTime = 0
    /\ duration = 0
    /\ audioSrc = ""
    /\ audioCurrentTime = 0
    /\ pending = <<>>
    /\ last = [op |-> "constructor", a |-> -1, b |-> -1, idx |-> -1]

Init ==
    /\ PlayerIdle /\ UiIdle /\ CacheIdle /\ SearchIdle /\ StreamIdle /\ DbIdle
    /\ PlaylistIdle /\ HistoryIdle /\ OfflineIdle /\ SyncIdle
    /\ TrendingIdle
    /\ finished = <<>>

(* --------------------------- playTrack --------------------------------- *)
\* Outcomes of getStreamURL(track) by track.source: a URL (for youtube the
\* stream URL or the embed fallback), or a rejection.
StreamOutcomes(track) ==
    CASE track.source = "youtube" -> {"url"}
      [] track.source = "soundcloud" -> {"url"}
      [] track.source = "audius" -> {"url", "error"}
      [] OTHER -> {"error"}

\* playTrack(track, addToQueue) up to its first await.  getStreamURL(undefined)
\* throws on track.source: the rejection is handled by the catch block in the
\* microtask that follows, before any other handler runs, and changes nothing.
\* Every other call stays suspended on the network.
playTrackSuspends(track, add, most) ==
    IF track = Undefined
    THEN UNCHANGED pending
    ELSE /\ Len(pending) < most
         /\ pending' = Append(pending, [track |-> track, add |-> add])

playTrackCall(track, add) == playTrackSuspends(track, add, MaxPending)

\* a resumption that appends the track of the oldest suspended call
playTrackResolve_m(k, outcome) ==
    LET call == pending[k] IN
    /\ outcome \in StreamOutcomes(call.track)
    /\ pending' = [j \in 1..(Len(pending) - 1) |->
                      IF j < k THEN pending[j] ELSE pending[j + 1]]
    /\ last' = Op("playTrack", IF call.add THEN 1 ELSE 0,
                  IF outcome = "error" THEN 0 ELSE 1)
    /\ UNCHANGED <<modeVars, mirrorVars>>
    /\ IF outcome = "error"
       THEN UNCHANGED <<queueVars, audioVars>>
       ELSE /\ audioSrc' = outcome
            /\ audioCurrentTime' = 0
            /\ currentTrack' = call.track
            /\ IF call.add
               THEN /\ Len(queue) < MaxQueue
                    /\ queue' = Append(queue, pending[1].track)
                    /\ queueIndex' = Len(queue)
               ELSE UNCHANGED queueVars

\* The resumption of the k-th suspended playTrack call: getStreamURL settles,
\* then the rest of the try block runs (or the catch block, on rejection).
playTrackResolve(k, outcome) ==
    LET call == pending[k] IN
    /\ outcome \in StreamOutcomes(call.track)
    /\ pending' = [j \in 1..(Len(pending) - 1) |->
                      IF j < k THEN pending[j] ELSE pending[j + 1]]
    /\ last' = Op("playTrack", IF call.add THEN 1 ELSE 0,
                  IF outcome = "error" THEN 0 ELSE 1)
    /\ UNCHANGED <<modeVars, mirrorVars>>
    /\ IF outcome = "error"
       THEN UNCHANGED <<queueVars, audioVars>>
       ELSE /\ audioSrc' = outcome
            /\ audioCurrentTime' = 0
            /\ currentTrack' = call.track
            /\ IF call.add
               THEN /\ Len(queue) < MaxQueue
                    /\ queue' = Append(queue, call.track)
                    /\ queueIndex' = Len(queue)
               ELSE UNCHANGED queueVars

\* UI "play" action on a track: playTrack(track), addToQueue defaulting to true
playNow(track) ==
    /\ playTrackCall(track, TRUE)
    /\ last' = Other
    /\ UNCHANGED <<queueVars, modeVars, mirrorVars, audioVars>>

\* UI click on a queue row: player.queueIndex = index; playTrack(track, false)
queueItemClick(index) ==
    /\ queueIndex' = index
    /\ playTrackCall(At(queue, index), FALSE)
    /\ last' = Other
    /\ UNCHANGED <<queue, modeVars, mirrorVars, audioVars>>

(* ----------------------------- transport ------------------------------- *)
\* audio.currentTime after seekTo(percent)
seekTo(percent) ==
    IF duration # 0 THEN duration * percent ELSE audioCurrentTime

\* play(): audio.play() when a source is loaded, else the head of the queue
play ==
    /\ last' = Other
    /\ UNCHANGED <<queueVars, modeVars, mirrorVars, audioVars>>
    /\ IF audioSrc # ""
       THEN UNCHANGED pending
       ELSE IF Len(queue) > 0
       THEN playTrackCall(At(queue, 0), FALSE)
       ELSE UNCHANGED pending

\* RandomIndices with the loop condition lost: the current index may be drawn
RandomIndices_m(q, idx) == 0..(Len(q) - 1)

\* The values the do-while loop of playRandom can leave in randomIndex.
RandomIndices(q, idx) == {i \in 0..(Len(q) - 1) : i # idx}

playRandom ==
    IF Len(queue) <= 1
    THEN UNCHANGED <<queueIndex, pending>>
    ELSE \E randomIndex \in RandomIndices(queue, queueIndex) :
            /\ queueIndex' = randomIndex
            /\ playTrackCall(At(queue, randomIndex), FALSE)

\* a playNext that advances from the last index as well
playNextBody_m ==
    IF shuffle
    THEN playRandom
    ELSE IF queueIndex < Len(queue)
    THEN /\ queueIndex' = queueIndex + 1
         /\ playTrackCall(At(queue, queueIndex + 1), FALSE)
    ELSE IF repeatMode = "all"
    THEN /\ queueIndex' = 0
         /\ playTrackCall(At(queue, 0), FALSE)
    ELSE UNCHANGED <<queueIndex, pending>>

\* The body of playNext(): it sets queueIndex and calls playTrack.
playNextBody ==
    IF shuffle
    THEN playRandom
    ELSE IF queueIndex < Len(queue) - 1
    THEN /\ queueIndex' = queueIndex + 1
         /\ playTrackCall(At(queue, queueIndex + 1), FALSE)
    ELSE IF repeatMode = "all"
    THEN /\ queueIndex' = 0
         /\ playTrackCall(At(queue, 0), FALSE)
    ELSE UNCHANGED <<queueIndex, pending>>

\* explicit "next" (button, key, media session)
playNext ==
    /\ playNextBody
    /\ last' = Op("playNext", -1, -1)
    /\ UNCHANGED <<queue, modeVars, mirrorVars, audioVars>>

\* elapsedEnough with >= for >
elapsedEnough_m(t) == t >= 3

\* this.currentTime > 3
elapsedEnough(t) == t > 3

playPrevious ==
    /\ last' = Op("playPrevious", currentTime, -1)
    /\ UNCHANGED <<queue, modeVars, mirrorVars, currentTrack, audioSrc>>
    /\ IF elapsedEnough(currentTime)
       THEN /\ audioCurrentTime' = seekTo(0)
            /\ UNCHANGED <<queueIndex, pending>>
       ELSE IF queueIndex > 0
       THEN /\ queueIndex' = queueIndex - 1
            /\ playTrackCall(At(queue, queueIndex - 1), FALSE)
            /\ UNCHANGED audioCurrentTime
       ELSE UNCHANGED <<queueIndex, pending, audioCurrentTime>>

toggleShuffle ==
    /\ shuffle' = ~shuffle
    /\ last' = Other
    /\ UNCHANGED <<queueVars, repeatMode, mirrorVars, audioVars, pending>>

toggleRepeat ==
    /\ repeatMode' = CASE repeatMode = "none" -> "one"
                       [] repeatMode = "one" -> "all"
                       [] OTHER -> "none"
    /\ last' = Other
    /\ UNCHANGED <<queueVars, shuffle, mirrorVars, audioVars, pending>>

(* --------------------------- queue mutation ---------------------------- *)
addToQueue(track) ==
    /\ Len(queue) < MaxQueue
    /\ queue' = Append(queue, track)
    /\ last' = Op("addToQueue", -1, -1)
    /\ UNCHANGED <<queueIndex, modeVars, mirrorVars, audioVars, pending>>

\* removeCursor with the comparison reversed
removeCursor_m(index, idx) == IF index > idx THEN idx - 1 ELSE idx

\* the cursor after removeFromQueue(index)
removeCursor(index, idx) == IF index < idx THEN idx - 1 ELSE idx

removeFromQueue(index) ==
    /\ queue' = SpliceOut(queue, index)
    /\ queueIndex' = removeCursor(index, queueIndex)
    /\ last' = Op("removeFromQueue", index, -1)
    /\ UNCHANGED <<modeVars, mirrorVars, audioVars, pending>>

clearQueue ==
    /\ queue' = <<>>
    /\ queueIndex' = -1
    /\ last' = Op("clearQueue", -1, -1)
    /\ UNCHANGED <<modeVars, mirrorVars, audioVars, pending>>

\* reorderCursor with > for >= in the second case
reorderCursor_m(fromIndex, toIndex, idx) ==
    IF fromIndex = idx THEN toIndex
    ELSE IF fromIndex < idx /\ toIndex > idx THEN idx - 1
    ELSE IF fromIndex > idx /\ toIndex <= idx THEN idx + 1
    ELSE idx

\* the cursor after reorderQueue(fromIndex, toIndex)
reorderCursor(fromIndex, toIndex, idx) ==
    IF fromIndex = idx THEN toIndex
    ELSE IF fromIndex < idx /\ toIndex >= idx THEN idx - 1
    ELSE IF fromIndex > idx /\ toIndex <= idx THEN idx + 1
    ELSE idx

reorderQueue(fromIndex, toIndex) ==
    /\ queue' = SpliceIn(SpliceOut(queue, fromIndex), toIndex,
                         At(queue, fromIndex))
    /\ queueIndex' = reorderCursor(fromIndex, toIndex, queueIndex)
    /\ last' = Op("reorderQueue", fromIndex, toIndex)
    /\ UNCHANGED <<modeVars, mirrorVars, audioVars, pending>>

(* ---------------------------- audio events ----------------------------- *)
\* replaysOnEnd testing for the wrong mode
replaysOnEnd_m(mode) == mode = "all"

\* this.repeatMode === 'one'
replaysOnEnd(mode) == mode = "one"

\* 'ended' event -> handleTrackEnd().  The element ends a track only after
\* it has loaded it, so a source is set and its duration has been reported.
\* last.a = 1 records that play() reached audio.play().
handleTrackEnd ==
    /\ audioSrc # ""
    /\ duration # 0
    /\ UNCHANGED <<queue, modeVars, mirrorVars, currentTrack, audioSrc>>
    /\ IF replaysOnEnd(repeatMode)
       THEN /\ audioCurrentTime' = seekTo(0)
            /\ last' = Op("handleTrackEnd", 1, -1)
            /\ UNCHANGED <<queueIndex, pending>>
       ELSE /\ playNextBody
            /\ last' = Op("handleTrackEnd", 0, -1)
            /\ UNCHANGED audioCurrentTime

\* 'error' event -> playNext()
audioError ==
    /\ audioSrc # ""
    /\ playNextBody
    /\ last' = Op("audioError", -1, -1)
    /\ UNCHANGED <<queue, modeVars, mirrorVars, audioVars>>

\* 'timeupdate' event: this.currentTime = this.audio.currentTime.  Playback
\* progresses only once the metadata, hence the duration, is known.
timeupdate(t) ==
    /\ audioSrc # ""
    /\ t > 0 => duration # 0
    /\ audioCurrentTime' = t
    /\ currentTime' = t
    /\ last' = Other
    /\ UNCHANGED <<queueVars, modeVars, duration, currentTrack, audioSrc,
                   pending>>

\* 'durationchange' event: this.duration = this.audio.duration
durationchange ==
    /\ audioSrc # ""
    /\ duration' = KnownDuration
    /\ last' = Other
    /\ UNCHANGED <<queueVars, modeVars, currentTime, audioVars, pending>>

(* --------------------------- specification ----------------------------- *)
PlayNow == \E track \in Tracks : playNow(track)
PlayTrackResolve ==
    \E k \in 1..Len(pending), outcome \in {"url", "error"} :
        playTrackResolve(k, outcome)
QueueItemClick == \E index \in 0..(Len(queue) - 1) : queueItemClick(index)
AddToQueue == \E track \in Tracks : addToQueue(track)
RemoveFromQueue == \E index \in 0..(Len(queue) - 1) : removeFromQueue(index)
ReorderQueue ==
    \E fromIndex \in 0..(Len(queue) - 1), toIndex \in 0..(Len(queue) - 1) :
        reorderQueue(fromIndex, toIndex)
TimeUpdate == \E t \in TimeValues : timeupdate(t)

\* the player alone: what the handlers do to the player's own state
Next ==
    \/ PlayNow /\ UNCHANGED outsideVars
    \/ PlayTrackResolve /\ UNCHANGED outsideVars
    \/ QueueItemClick /\ UNCHANGED outsideVars
    \/ AddToQueue /\ UNCHANGED outsideVars
    \/ RemoveFromQueue /\ UNCHANGED outsideVars
    \/ clearQueue /\ UNCHANGED outsideVars
    \/ ReorderQueue /\ UNCHANGED outsideVars
    \/ play /\ UNCHANGED outsideVars
    \/ playNext /\ UNCHANGED outsideVars
    \/ playPrevious /\ UNCHANGED outsideVars
    \/ toggleShuffle /\ UNCHANGED outsideVars
    \/ toggleRepeat /\ UNCHANGED outsideVars
    \/ handleTrackEnd /\ UNCHANGED outsideVars
    \/ audioError /\ UNCHANGED outsideVars
    \/ TimeUpdate /\ UNCHANGED outsideVars
    \/ durationchange /\ UNCHANGED outsideVars

Spec == Init /\ [][Next]_vars

(* ------------------------------ properties ----------------------------- *)
\* The two states of the queue: Empty and Positioned.
Empty == Len(queue) = 0 /\ queueIndex = -1
Positioned == Len(queue) > 0 /\ queueIndex \in 0..(Len(queue) - 1)

\* the handlers that advance: explicit next, natural track end, audio error
Advances(name) == name \in {"playNext", "handleTrackEnd", "audioError"}

\* C1: after every addToQueue, removeFromQueue and reorderQueue, starting
\* from the empty queue, queueIndex = -1 iff the queue is empty, and
\* otherwise 0 <= queueIndex < queue.length.
C1_QueueInvariant ==
    last.op \in {"constructor", "addToQueue", "removeFromQueue", "reorderQueue"}
        => /\ queueIndex = -1 <=> Len(queue) = 0
           /\ Len(queue) > 0 => queueIndex \in 0..(Len(queue) - 1)

C3_RemoveShiftsCursor ==
    [][last'.op = "removeFromQueue"
          => /\ last'.a < queueIndex
                 => /\ queueIndex' = queueIndex - 1
                    /\ At(queue', queueIndex') = At(queue, queueIndex)
             /\ last'.a > queueIndex
                 => /\ queueIndex' = queueIndex
                    /\ At(queue', queueIndex') = At(queue, queueIndex)]_vars

\* [YT, AU] with the cursor on AU (1); remove(0) gives [AU], cursor 0
C3_Witness ==
    /\ last = [op |-> "removeFromQueue", a |-> 0, b |-> -1, idx |-> 1]
    /\ queue = <<AU>>
    /\ queueIndex = 0

\* C4: removeFromQueue(index) with index equal to the cursor leaves the
\* cursor in range: clamped to queue.length - 1 when the last element was
\* removed, and -1 when the queue becomes empty.
C4_RemoveAtCursorClamps ==
    (last.op = "removeFromQueue" /\ last.a = last.idx)
        => IF Len(queue) = 0
           THEN queueIndex = -1
           ELSE /\ queueIndex \in 0..(Len(queue) - 1)
                /\ last.a = Len(queue) => queueIndex = Len(queue) - 1

\* C5: addToQueue(track) appends the track at the end of the queue, and the
\* first addition to an empty queue with nothing playing makes the cursor
\* the index of that track (0).
C5_AddSetsCursor ==
    [][last'.op = "addToQueue"
          => /\ \E track \in Tracks : queue' = Append(queue, track)
             /\ (Len(queue) = 0 /\ currentTrack = Null /\ audioSrc = "")
                   => queueIndex' = 0]_vars

C7_ShuffleAdvance ==
    [][(Advances(last'.op) /\ shuffle /\ repeatMode # "one")
          => IF Len(queue) <= 1
             THEN /\ queueIndex' = queueIndex
                  /\ currentTrack' = currentTrack
                  /\ pending' = pending
             ELSE /\ queueIndex' \in 0..(Len(queue) - 1)
                  /\ queueIndex' # queueIndex]_vars

\* next with shuffle on, two tracks, from cursor 0 to cursor 1
C7_Witness ==
    /\ last = [op |-> "playNext", a |-> -1, b |-> -1, idx |-> 0]
    /\ shuffle /\ repeatMode = "none"
    /\ Len(queue) = 2 /\ queueIndex = 1
    /\ Len(pending) = 1 /\ pending[1].track = At(queue, 1)

\* C8: advance with shuffle off and repeatMode not 'one': a cursor that is
\* not the last index is incremented; at the last index it wraps to 0 under
\* 'all', and under 'none' it is unchanged and no track is started.
C8_SequentialAdvance ==
    [][(Advances(last'.op) /\ ~shuffle /\ repeatMode # "one")
          => IF queueIndex # Len(queue) - 1
             THEN queueIndex' = queueIndex + 1
             ELSE IF repeatMode = "all"
             THEN queueIndex' = 0
             ELSE queueIndex' = queueIndex /\ pending' = pending]_vars

\* C9: playPrevious restarts the current track and keeps the cursor when more
\* than 3 seconds have elapsed; otherwise it decrements a cursor > 0 and
\* starts that track, and changes nothing at cursor 0 or -1.
C9_PlayPrevious ==
    [][last'.op = "playPrevious"
          => IF currentTime > 3
             THEN /\ queueIndex' = queueIndex
                  /\ audioCurrentTime' = 0
                  /\ currentTrack' = currentTrack
                  /\ pending' = pending
             ELSE IF queueIndex > 0
             THEN /\ queueIndex' = queueIndex - 1
                  /\ At(queue, queueIndex') # Undefined
                       => pending' = Append(pending,
                              [track |-> At(queue, queueIndex'), add |-> FALSE])
             ELSE UNCHANGED <<queue, queueIndex, currentTrack, audioSrc,
                              audioCurrentTime, pending>>]_vars

\* previous pressed 4 seconds into the second track: restart, cursor kept
C9_Witness ==
    /\ last = [op |-> "playPrevious", a |-> 4, b |-> -1, idx |-> 1]
    /\ queueIndex = 1 /\ Len(queue) = 2
    /\ audioCurrentTime = 0
    /\ pending = <<>>

\* C10: playNext, handleTrackEnd, playPrevious and removeFromQueue take an
\* Empty or Positioned queue to an Empty or Positioned queue; on the empty
\* queue the cursor stays -1 and no track is started.
C10_Total ==
    [][(last'.op \in {"playNext", "handleTrackEnd", "playPrevious",
                      "removeFromQueue"}
          /\ (Empty \/ Positioned))
          => /\ Empty' \/ Positioned'
             /\ Empty => (queueIndex' = -1 /\ pending' = pending)]_vars

(* ------------------------ the queue panel ------------------------------ *)
\* What ui.updateQueue(queue) leaves on screen: one row per track, the row
\* at the player's cursor marked 'playing' (-1: no row is marked).
Render(q, idx) ==
    [queue |-> q, playing |-> IF idx >= 0 /\ idx < Len(q) THEN idx ELSE -1]

\* window.app.ui.updateQueue(this.queue), called while the cursor is idx
updateQueue(q, idx) == notified' = Render(q, idx)

\* The handlers together with the calls of updateQueue they make.  playTrack
\* renders inside addToQueue, before it assigns the cursor.
NotifyNext ==
    \/ PlayNow /\ UNCHANGED <<notified, backendVars>>
    \/ /\ PlayTrackResolve
       /\ IF last'.a = 1 /\ last'.b = 1
          THEN updateQueue(queue', queueIndex)
          ELSE UNCHANGED notified
       /\ UNCHANGED backendVars
    \/ QueueItemClick /\ UNCHANGED <<notified, backendVars>>
    \/ AddToQueue /\ updateQueue(queue', queueIndex') /\ UNCHANGED backendVars
    \/ RemoveFromQueue /\ updateQueue(queue', queueIndex') /\ UNCHANGED backendVars
    \/ clearQueue /\ updateQueue(queue', queueIndex') /\ UNCHANGED backendVars
    \/ ReorderQueue /\ updateQueue(queue', queueIndex') /\ UNCHANGED backendVars
    \/ play /\ UNCHANGED <<notified, backendVars>>
    \/ playNext /\ UNCHANGED <<notified, backendVars>>
    \/ playPrevious /\ UNCHANGED <<notified, backendVars>>
    \/ toggleShuffle /\ UNCHANGED <<notified, backendVars>>
    \/ toggleRepeat /\ UNCHANGED <<notified, backendVars>>
    \/ handleTrackEnd /\ UNCHANGED <<notified, backendVars>>
    \/ audioError /\ UNCHANGED <<notified, backendVars>>
    \/ TimeUpdate /\ UNCHANGED <<notified, backendVars>>
    \/ durationchange /\ UNCHANGED <<notified, backendVars>>

NotifySpec == Init /\ [][NotifyNext]_allVars

\* the operations that change the queue contents or the cursor
Mutates(l) ==
    \/ l.op \in {"addToQueue", "removeFromQueue", "clearQueue", "reorderQueue",
                 "playNext", "playPrevious"}
    \/ l.op = "playTrack" /\ l.a = 1 /\ l.b = 1

\* C11: every operation that changes the queue contents or the cursor
\* notifies the observer after the change: once such an operation has run,
\* the queue panel shows the current queue with the current cursor marked.
C11_NotifiedAfterChange ==
    Mutates(last) => notified = Render(queue, queueIndex)

(* ------------------------ the response cache --------------------------- *)
\* this.cacheTimeout, in milliseconds
cacheTimeout == 5 * 60 * 1000

\* request URLs and JSON.stringify(options) of the requests made
Urls == {"u1", "u2"}
OptionsJSON == {"{}"}
\* the cache key of a request: `${url}_${JSON.stringify(options)}`
CacheKey(url, options) == <<url, options>>
Keys == {CacheKey(url, options) : url \in Urls, options \in OptionsJSON}

\* response bodies the network can deliver
Bodies == {"d1", "d2"}
\* how a network request can end: a 2xx response, fetch() rejecting, or a
\* response whose ok flag is false
LoaderOutcomes == {"ok", "network error", "http error"}

\* The clock readings followed: around each multiple of the cache lifetime.
Instants ==
    {t \in {k * cacheTimeout + d : k \in 0..MaxPeriods, d \in {-1, 0, 1}} :
        t >= 0}

\* the freshness test with the lifetime one millisecond short
Fresh_short(entry, t) == t - entry.timestamp < cacheTimeout - 1

\* the freshness test with the bound included
Fresh_m(entry, t) == t - entry.timestamp <= cacheTimeout

\* Date.now() - cached.timestamp < this.cacheTimeout
Fresh(entry, t) == t - entry.timestamp < cacheTimeout

\* this.cache.has(cacheKey) with an entry that passes the freshness test
HasFresh(key) == key \in DOMAIN cache /\ Fresh(cache[key], now)

\* fetchWithCache(url, options) up to its first suspension: a fresh entry
\* is returned at once; otherwise fetch() is called and the call waits.
fetchWithCache(url, options) ==
    LET cacheKey == CacheKey(url, options) IN
    IF HasFresh(cacheKey)
    THEN /\ reply' = [op |-> "return", key |-> cacheKey,
                      data |-> cache[cacheKey].data, loader |-> NoData,
                      fresh |-> TRUE]
         /\ UNCHANGED <<cache, now, inflight>>
    ELSE /\ BagCardinality(inflight) < MaxInflight
         /\ inflight' = inflight (+) SetToBag({cacheKey})
         /\ reply' = [op |-> "fetch", key |-> cacheKey, data |-> NoData,
                      loader |-> NoData, fresh |-> FALSE]
         /\ UNCHANGED <<cache, now>>

\* a store that keeps the entry a key has already
CacheSet_keep(c, key, data, t) ==
    [k \in DOMAIN c \cup {key} |->
        IF k \in DOMAIN c THEN c[k] ELSE [data |-> data, timestamp |-> t]]

\* a store that evicts every other entry
CacheSet_m(c, key, data, t) ==
    [k \in {key} |-> [data |-> data, timestamp |-> t]]

\* the cache after this.cache.set(key, {data, timestamp})
CacheSet(c, key, data, t) ==
    [k \in DOMAIN c \cup {key} |->
        IF k = key THEN [data |-> data, timestamp |-> t] ELSE c[k]]

\* the cache after a request failed, had the failure been stored
OnFailure_m(c, key, t) == CacheSet(c, key, NoData, t)

\* the cache after a request failed: the catch block rethrows
OnFailure(c, key, t) == c

\* The rest of a suspended fetchWithCache call: the response arrives; a 2xx
\* body is stored with the time of arrival and returned, anything else is
\* thrown to the caller.
fetchSettle(key, outcome, data) ==
    /\ BagIn(key, inflight)
    /\ inflight' = inflight (-) SetToBag({key})
    /\ IF outcome = "ok"
       THEN /\ cache' = CacheSet(cache, key, data, now)
            /\ reply' = [op |-> "resolve", key |-> key, data |-> data,
                         loader |-> outcome, fresh |-> HasFresh(key)]
       ELSE /\ cache' = OnFailure(cache, key, now)
            /\ reply' = [op |-> "reject", key |-> key, data |-> NoData,
                         loader |-> outcome, fresh |-> HasFresh(key)]
    /\ UNCHANGED now

\* clearCache()
clearCache ==
    /\ cache' = [k \in {} |-> NoData]
    /\ reply' = [op |-> "clearCache", key |-> NoData, data |-> NoData,
                 loader |-> NoData, fresh |-> FALSE]
    /\ UNCHANGED <<now, inflight>>

\* the clock moves on
Later == \E t \in Instants : t > now /\ now' = t

\* time passes
Tick ==
    /\ Later
    /\ reply' = [op |-> "tick", key |-> NoData, data |-> NoData,
                 loader |-> NoData, fresh |-> FALSE]
    /\ UNCHANGED <<cache, inflight>>

FetchWithCache ==
    \E url \in Urls, options \in OptionsJSON : fetchWithCache(url, options)
FetchSettle ==
    \E key \in Keys, outcome \in LoaderOutcomes, data \in Bodies :
        fetchSettle(key, outcome, data)

cacheFrame ==
    <<vars, uiVars, searchVars, trendingVars, overlapVars, streamVars,
      dbVars, storeVars>>

CacheNext ==
    \/ FetchWithCache /\ UNCHANGED cacheFrame
    \/ FetchSettle /\ UNCHANGED cacheFrame
    \/ clearCache /\ UNCHANGED cacheFrame
    \/ Tick /\ UNCHANGED cacheFrame

CacheSpec == Init /\ [][CacheNext]_allVars

\* the step is a fetchWithCache call for key
Calls(key) == reply'.op \in {"return", "fetch"} /\ reply'.key = key
\* the step invokes the loader for key once
Loads(key) == CopiesIn(key, inflight') = CopiesIn(key, inflight) + 1

\* C12: a fetchWithCache call for a key whose stored entry is less than
\* 5 minutes old returns the stored value without invoking the loader (and
\* leaves the cache as it is).
C12_HitWithinTTL ==
    [][\A key \in Keys :
          (/\ Calls(key)
           /\ key \in DOMAIN cache
           /\ now - cache[key].timestamp < 5 * 60 * 1000)
              => /\ reply'.op = "return"
                 /\ reply'.data = cache[key].data
                 /\ inflight' = inflight
                 /\ cache' = cache]_cacheVars

\* a value stored at 0 is returned 299999 ms later
C12_Witness ==
    /\ reply.op = "return"
    /\ now - cache[reply.key].timestamp = 5 * 60 * 1000 - 1

\* C13: a fetchWithCache call for a key whose entry is 5 minutes old or
\* older invokes the loader again, and a successful load for a key that has
\* an entry replaces it with the loaded value and the time of the store.
C13_ExpiredReloads ==
    [][\A key \in Keys :
          /\ (/\ Calls(key)
              /\ key \in DOMAIN cache
              /\ now - cache[key].timestamp >= 5 * 60 * 1000)
                 => /\ reply'.op = "fetch"
                    /\ Loads(key)
          /\ (/\ reply'.loader = "ok"
              /\ reply'.key = key
              /\ key \in DOMAIN cache)
                 => /\ reply'.op = "resolve"
                    /\ cache'[key] = [data |-> reply'.data, timestamp |-> now']
                    /\ DOMAIN cache' = DOMAIN cache]_cacheVars

\* an entry exactly 5 minutes old, and the call for its key went to the
\* network
C13_Witness ==
    /\ reply.op = "fetch"
    /\ reply.key \in DOMAIN cache
    /\ now - cache[reply.key].timestamp = 5 * 60 * 1000

SourceFilters == {"all", "youtube", "soundcloud", "audius", "spotify"}

\* the tracks a provider can return: objects built by the provider's map()
Items(p) == {[id |-> ToString(i), source |-> p] : i \in 1..MaxResults}

\* sequences of n pairwise different elements of S
RECURSIVE Lists(_, _)
Lists(S, n) ==
    IF n = 0
    THEN {<<>>}
    ELSE {Append(y[1], y[2]) :
            y \in {z \in Lists(S, n - 1) \X S :
                      \A k \in 1..(n - 1) : z[1][k] # z[2]}}

\* the lists a provider's search can return
ResultLists(p) == UNION {Lists(Items(p), n) : n \in 0..MaxResults}

\* What a provider's request comes back with: a response that maps to a
\* list of tracks, or a failure (fetchWithCache throws, or the body lacks
\* the array).
Responses(p) ==
    {[ok |-> TRUE, items |-> l, back |-> TRUE] : l \in ResultLists(p)}
        \cup {[ok |-> FALSE, items |-> <<>>, back |-> TRUE]}

\* the catch block of a provider search, returning a placeholder entry
Caught_m(p) == <<[id |-> "error", source |-> p]>>

\* the catch block of searchYouTube / searchSoundCloud / searchAudius
Caught(p) == <<>>

\* the value the promise of a provider search is fulfilled with
searchProvider(p, response) ==
    IF response.ok THEN response.items ELSE Caught(p)

\* if (list[i]) merged.push(list[i])
PushIfAny(merged, list, i) ==
    IF At(list, i) # Undefined THEN Append(merged, At(list, i)) ELSE merged

Max(a, b) == IF a >= b THEN a ELSE b

\* the for loop of mergeResults from index i on
RECURSIVE MergeFrom(_, _, _)
MergeFrom(r, i, merged) ==
    IF i >= Max(Len(r.youtube), Max(Len(r.soundcloud), Len(r.audius)))
    THEN merged
    ELSE MergeFrom(r, i + 1,
            PushIfAny(PushIfAny(PushIfAny(merged, r.youtube, i),
                                r.soundcloud, i),
                      r.audius, i))

\* a merge that appends the lists one after the other
mergeResults_m(r) == r.youtube \o r.soundcloud \o r.audius

\* mergeResults(results)
mergeResults(r) == MergeFrom(r, 0, <<>>)

\* a join that lets the first settled request through
Joined_m(promises, settled) == promises = {} \/ settled # <<>>

\* await Promise.allSettled(searchPromises): every promise has settled
Joined(promises, settled) ==
    \A p \in promises : \E k \in 1..Len(settled) : settled[k] = p

\* a filter test that lets every provider through
Requested_m(source, p) == TRUE

\* if (source === 'all' || source === 'youtube') and its two siblings
Requested(source, p) == source = "all" \/ source = p

\* search(query, source) up to the await: the requests are issued
search(source) ==
    /\ sFilter = "none" \/ returned.state # "none"
    /\ sFilter' = source
    /\ issued' = {p \in ProviderSet : Requested(source, p)}
    /\ settledOrder' = <<>>
    /\ responses' = [p \in ProviderSet |-> NoResponse]
    /\ results' = [p \in ProviderSet |-> <<>>]
    /\ returned' = [state |-> "none", value |-> <<>>]

\* a provider search settles: searchX(query).then(data => results.x = data)
providerSettles(p, response) ==
    /\ p \in issued
    /\ ~responses[p].back
    /\ returned.state = "none"
    /\ responses' = [responses EXCEPT ![p] = response]
    /\ results' = [results EXCEPT ![p] = searchProvider(p, response)]
    /\ settledOrder' = Append(settledOrder, p)
    /\ UNCHANGED <<sFilter, issued, returned>>

\* search() after the await: return this.mergeResults(results)
searchReturn ==
    /\ sFilter # "none"
    /\ returned.state = "none"
    /\ Joined(issued, settledOrder)
    /\ returned' = [state |-> "fulfilled", value |-> mergeResults(results)]
    /\ UNCHANGED <<sFilter, issued, settledOrder, responses, results>>

Search == \E source \in SourceFilters : search(source)
ProviderSettles ==
    \E p \in ProviderSet : \E response \in Responses(p) :
        providerSettles(p, response)

searchFrame ==
    <<vars, uiVars, trendingVars, overlapVars, cacheVars, streamVars, dbVars,
      storeVars>>

SearchNext ==
    \/ Search /\ UNCHANGED searchFrame
    \/ ProviderSettles /\ UNCHANGED searchFrame
    \/ searchReturn /\ UNCHANGED searchFrame

SearchSpec == Init /\ [][SearchNext]_allVars

\* The places of the tracks of three lists: <<i, r>> is the i-th place of
\* the list of the r-th provider.
Slots(L) ==
    {x \in (1..MaxResults + 1) \X (1..Len(Providers)) :
        x[1] <= Len(L[Providers[x[2]]])}
\* round-robin order: by place, then by provider
Before(x, y) == x[1] < y[1] \/ (x[1] = y[1] /\ x[2] < y[2])
\* m holds each track of the lists L once, in round-robin order
IsRoundRobin(m, L) ==
    /\ Len(m) = Cardinality(Slots(L))
    /\ \A x \in Slots(L) :
          m[1 + Cardinality({y \in Slots(L) : Before(y, x)})]
              = L[Providers[x[2]]][x[1]]
\* the lists of the providers that succeeded, the empty list for the others
Succeeded(R) == [p \in ProviderSet |-> IF R[p].ok THEN R[p].items ELSE <<>>]

Y(i) == [id |-> ToString(i), source |-> "youtube"]
S(i) == [id |-> ToString(i), source |-> "soundcloud"]
A(i) == [id |-> ToString(i), source |-> "audius"]

\* C15: search(query, 'all') never rejects because a provider failed; a
\* provider whose request fails contributes the empty list, and the value
\* returned is the round-robin merge of the lists of the providers that
\* succeeded.
C15_PartialFailure ==
    (sFilter = "all" /\ returned.state # "none")
        => /\ returned.state = "fulfilled"
           /\ \A p \in ProviderSet : ~responses[p].ok => results[p] = <<>>
           /\ IsRoundRobin(returned.value, Succeeded(responses))

\* soundcloud failed; youtube returned two tracks and audius one
C15_Witness ==
    /\ sFilter = "all"
    /\ returned.state = "fulfilled"
    /\ responses["soundcloud"] = [ok |-> FALSE, items |-> <<>>, back |-> TRUE]
    /\ responses["youtube"].items = <<Y(1), Y(2)>>
    /\ responses["audius"].items = <<A(2)>>
    /\ returned.value = <<Y(1), A(2), Y(2)>>

\* C16: mergeResults returns a list of length |A|+|B|+|C| that holds the
\* i-th tracks of A (youtube), B (soundcloud), C (audius), those that exist,
\* in that order before any (i+1)-th track, keeps each list's order, and
\* drops or repeats nothing.
C16_RoundRobinMerge ==
    returned.state = "fulfilled"
        => /\ Len(returned.value)
                 = Len(results.youtube) + Len(results.soundcloud)
                       + Len(results.audius)
           /\ IsRoundRobin(returned.value, results)

\* A = [a1, a2], B = [b1], C = [] gives [a1, b1, a2]
C16_Witness ==
    /\ returned.state = "fulfilled"
    /\ results.youtube = <<Y(1), Y(2)>>
    /\ results.soundcloud = <<S(1)>>
    /\ results.audius = <<>>
    /\ returned.value = <<Y(1), S(1), Y(2)>>

\* C17: search() returns only after every request it issued has come back,
\* and the list it returns is the round-robin merge of what the providers
\* returned, whatever the order in which their requests settled.
C17_JoinBeforeMerge ==
    [][(returned.state = "none" /\ returned'.state # "none")
          => /\ \A p \in issued : responses[p].back
             /\ Len(settledOrder) = Cardinality(issued)
             /\ IsRoundRobin(returned'.value, Succeeded(responses))]_searchVars

\* the requests settled in the reverse of the order they were issued in
C17_Witness ==
    /\ returned.state = "fulfilled"
    /\ settledOrder = <<"audius", "soundcloud", "youtube">>
    /\ returned.value = <<Y(1), S(1), A(1)>>

(* ------------------------ stream resolution ---------------------------- *)
\* values of track.source; 'spotify' is the source of no provider
Sources == {"youtube", "soundcloud", "audius", "spotify"}
\* the tracks passed to getStreamURL
StreamTracks == {[id |-> i, source |-> src] : i \in {"v1", "a1"}, src \in Sources}
\* track.url: the permalink of a track
TrackUrl(track) == "https://" \o track.source \o "/" \o track.id

\* a dispatch that sends every known source to the youtube resolver
Dispatch_m(track) ==
    IF track.source \in {"youtube", "soundcloud", "audius"}
    THEN [resolver |-> "getYouTubeStream", arg |-> track.id]
    ELSE [resolver |-> "none", arg |-> ""]

\* the switch of getStreamURL: the resolver called and its argument
\* ("none": the default case, which throws)
Dispatch(track) ==
    CASE track.source = "youtube" ->
            [resolver |-> "getYouTubeStream", arg |-> track.id]
      [] track.source = "soundcloud" ->
            [resolver |-> "getSoundCloudStream", arg |-> TrackUrl(track)]
      [] track.source = "audius" ->
            [resolver |-> "getAudiusStream", arg |-> track.id]
      [] OTHER -> [resolver |-> "none", arg |-> ""]

\* How a resolver's request can end: a JSON body with a url, a request that
\* rejects or a body that does not parse, a JSON body without a url (the
\* 400 answer of /api/youtube/stream).
NetOutcomes == {"url", "reject", "no url"}
\* the url a JSON body can carry: a media URL, or the embed URL the server
\* falls back to
ServedUrls(id) == {"https://media/" \o id, "https://www.youtube.com/embed/" \o id}

\* the fallback of getYouTubeStream
Embed(videoId) == "https://www.youtube.com/embed/" \o videoId \o "?autoplay=1"

\* getYouTubeStream(videoId), given how its request ended
getYouTubeStream(videoId, net, url) ==
    CASE net = "url" -> [state |-> "fulfilled", value |-> url, net |-> net]
      [] net = "no url" ->
            [state |-> "fulfilled", value |-> "undefined", net |-> net]
      [] OTHER -> [state |-> "fulfilled", value |-> Embed(videoId), net |-> net]

\* getAudiusStream(trackId), given how its request ended
getAudiusStream(trackId, net, url) ==
    CASE net = "url" -> [state |-> "fulfilled", value |-> url, net |-> net]
      [] net = "no url" ->
            [state |-> "fulfilled", value |-> "undefined", net |-> net]
      [] OTHER -> [state |-> "rejected", value |-> "error", net |-> net]

\* playTrack(track, false) up to its await: getStreamURL(track) dispatches;
\* getSoundCloudStream and the default case settle without a request.
getStreamURL(track) ==
    /\ resolving.stage \in {"idle", "done"}
    /\ LET d == Dispatch(track) IN
       /\ resolving' = [track |-> track, resolver |-> d.resolver,
                        arg |-> d.arg,
                        stage |-> IF d.resolver \in {"getYouTubeStream",
                                                     "getAudiusStream"}
                                  THEN "awaiting" ELSE "settled"]
       /\ stream' =
            CASE d.resolver = "getSoundCloudStream" ->
                    [state |-> "fulfilled", value |-> d.arg, net |-> "none"]
              [] d.resolver = "none" ->
                    [state |-> "rejected", value |-> "Unknown source",
                     net |-> "none"]
              [] OTHER -> [state |-> "pending", value |-> "", net |-> "none"]
    /\ toast' = ""
    /\ UNCHANGED <<started, vars>>

\* the request of the resolver comes back
streamSettles(net, url) ==
    /\ resolving.stage = "awaiting"
    /\ stream' = IF resolving.resolver = "getYouTubeStream"
                 THEN getYouTubeStream(resolving.arg, net, url)
                 ELSE getAudiusStream(resolving.arg, net, url)
    /\ resolving' = [resolving EXCEPT !.stage = "settled"]
    /\ UNCHANGED <<toast, started, vars>>

\* playTrack after its await: the URL is loaded, or the catch block runs
playTrackContinue ==
    /\ resolving.stage = "settled"
    /\ resolving' = [resolving EXCEPT !.stage = "done"]
    /\ IF stream.state = "fulfilled"
       THEN /\ audioSrc' = stream.value
            /\ audioCurrentTime' = 0
            /\ currentTrack' = resolving.track
            /\ UNCHANGED toast
       ELSE /\ toast' = "Failed to play track"
            /\ UNCHANGED audioVars
    /\ UNCHANGED <<stream, started, queueVars, modeVars, mirrorVars, pending,
                   last>>

GetStreamURL == \E track \in StreamTracks : getStreamURL(track)
StreamSettles ==
    \E net \in NetOutcomes : \E url \in ServedUrls(resolving.arg) :
        streamSettles(net, url)

streamFrame ==
    <<uiVars, cacheVars, searchVars, trendingVars, overlapVars, dbVars,
      storeVars>>

StreamNext ==
    \/ GetStreamURL /\ UNCHANGED streamFrame
    \/ StreamSettles /\ UNCHANGED streamFrame
    \/ playTrackContinue /\ UNCHANGED streamFrame

StreamSpec == Init /\ [][StreamNext]_allVars

\* C18: getStreamURL(track) fails with 'Unknown source' when track.source
\* is none of youtube, soundcloud, audius, and otherwise calls exactly the
\* resolver of that provider (with the track's id, or its url for
\* soundcloud).
C18_Dispatch ==
    resolving.stage # "idle"
        => LET track == resolving.track IN
           /\ track.source \notin {"youtube", "soundcloud", "audius"}
                 => /\ resolving.resolver = "none"
                    /\ stream.state = "rejected"
                    /\ stream.value = "Unknown source"
           /\ track.source = "youtube"
                 => /\ resolving.resolver = "getYouTubeStream"
                    /\ resolving.arg = track.id
           /\ track.source = "soundcloud"
                 => /\ resolving.resolver = "getSoundCloudStream"
                    /\ resolving.arg = TrackUrl(track)
           /\ track.source = "audius"
                 => /\ resolving.resolver = "getAudiusStream"
                    /\ resolving.arg = track.id
           /\ track.source \in {"youtube", "soundcloud", "audius"}
                 => stream.value # "Unknown source"

\* a spotify track: getStreamURL rejected and playTrack reported it
C18_Witness ==
    /\ resolving.stage = "done"
    /\ resolving.track = [id |-> "v1", source |-> "spotify"]
    /\ stream = [state |-> "rejected", value |-> "Unknown source",
                 net |-> "none"]
    /\ toast = "Failed to play track"

\* C19: a provider failure during stream-URL resolution is never surfaced
\* as a failure of the play action (playTrack loads what the resolution
\* gave and reports no failure), and for youtube a failed resolution gives
\* the embed URL of that video id instead of rejecting.
C19_StreamDegradation ==
    (resolving.stage = "done" /\ stream.net = "reject")
        => /\ toast = ""
           /\ audioSrc = stream.value
           /\ currentTrack = resolving.track
           /\ resolving.resolver = "getYouTubeStream"
                 => /\ stream.state = "fulfilled"
                    /\ stream.value = Embed(resolving.track.id)

(* ------------------------ the liked store ------------------------------ *)
\* store.delete(key) that removes nothing
Deleted_m(store, key) == store

\* the store after store.delete(key)
Deleted(store, key) == [k \in DOMAIN store \ {key} |-> store[k]]

\* the store after store.add({...track, id: trackId, timestamp: Date.now()})
Added(store, key, track, t) ==
    [k \in DOMAIN store \cup {key} |->
        IF k = key
        THEN [id |-> key, source |-> track.source, timestamp |-> t]
        ELSE store[k]]

\* db.transaction(['liked'], mode), with the request store.get(trackId) made
Transaction(name, track) ==
    /\ Len(txns) < MaxTxns
    /\ txns' = Append(txns, [op |-> name, track |-> track, stage |-> "get"])
    /\ UNCHANGED <<liked, toggled, parity, answer, now>>

\* toggleLike(track) and isLiked(track) up to the promise they return
toggleLike(track) == Transaction("toggleLike", track)
isLiked(track) == Transaction("isLiked", track)

\* a transaction that starts whatever is still open before it
Started_m(q, k) == TRUE

\* The k-th open transaction has started: transactions on one store run in
\* the order they were created, each after the ones before it finished.
Started(q, k) == k = 1

\* getRequest.onsuccess in a started transaction: isLiked resolves with
\* !!result and its transaction completes; toggleLike requests the delete
\* or the add.
getSucceeds ==
    \E k \in 1..Len(txns) :
        /\ Started(txns, k)
        /\ txns[k].stage = "get"
        /\ LET txn == txns[k]
               key == LikedKey(txn.track)
           IN IF txn.op = "isLiked"
              THEN /\ answer' = [op |-> "isLiked", key |-> key,
                                 state |-> "fulfilled",
                                 value |-> key \in DOMAIN liked]
                   /\ txns' = SpliceOut(txns, k - 1)
              ELSE /\ txns' = [txns EXCEPT ![k].stage =
                                    IF key \in DOMAIN liked THEN "delete"
                                                            ELSE "add"]
                   /\ UNCHANGED answer
        /\ UNCHANGED <<liked, toggled, parity, now>>

\* deleteRequest.onsuccess / addRequest.onsuccess in a started
\* transaction: toggleLike resolves and the transaction commits.
writeSucceeds ==
    \E k \in 1..Len(txns) :
        /\ Started(txns, k)
        /\ txns[k].stage \in {"delete", "add"}
        /\ LET txn == txns[k]
               key == LikedKey(txn.track)
           IN /\ liked' = IF txn.stage = "delete"
                           THEN Deleted(liked, key)
                           ELSE Added(liked, key, txn.track, now)
              /\ answer' = [op |-> "toggleLike", key |-> key,
                            state |-> "fulfilled", value |-> txn.stage = "add"]
              /\ toggled' = [toggled EXCEPT ![key] =
                                IF txn.stage = "add" THEN "true" ELSE "false"]
              /\ parity' = [parity EXCEPT ![key] = 1 - @]
        /\ txns' = SpliceOut(txns, k - 1)
        /\ UNCHANGED now

\* a request's onerror in a started transaction: the promise rejects and
\* the transaction aborts, leaving the store as it was
requestFails ==
    \E k \in 1..Len(txns) :
        /\ Started(txns, k)
        /\ answer' = [op |-> txns[k].op, key |-> LikedKey(txns[k].track),
                      state |-> "rejected", value |-> FALSE]
        /\ txns' = SpliceOut(txns, k - 1)
        /\ UNCHANGED <<liked, toggled, parity, now>>

ToggleLike == \E track \in Tracks : toggleLike(track)
IsLiked == \E track \in Tracks : isLiked(track)

dbFrame ==
    <<vars, uiVars, cache, inflight, reply, searchVars, trendingVars,
      overlapVars, streamVars, storeVars>>

DbNext ==
    \/ ToggleLike /\ UNCHANGED dbFrame
    \/ IsLiked /\ UNCHANGED dbFrame
    \/ getSucceeds /\ UNCHANGED dbFrame
    \/ writeSucceeds /\ UNCHANGED dbFrame
    \/ requestFails /\ UNCHANGED dbFrame
    \/ Later /\ UNCHANGED <<dbVars, dbFrame>>

DbSpec == Init /\ [][DbNext]_allVars

\* C20: toggleLike(track) inserts the entry keyed '<source>_<id>' and
\* returns true when the key is absent, deletes it and returns false when it
\* is present, touching no other entry; so from a never-liked track the
\* calls return true, false, true, ... and the second restores the store;
\* and isLiked(track) is the value the last toggleLike(track) returned.
C20_LikedToggle ==
    [][\A track \in Tracks :
          LET key == track.source \o "_" \o track.id IN
          (/\ Len(txns') < Len(txns)
           /\ answer'.state = "fulfilled"
           /\ answer'.key = key)
              => /\ answer'.op = "toggleLike"
                    => /\ \A k \in (DOMAIN liked \cup DOMAIN liked') \ {key} :
                             /\ k \in DOMAIN liked \cap DOMAIN liked'
                             /\ liked'[k] = liked[k]
                       /\ IF key \in DOMAIN liked
                          THEN /\ answer'.value = FALSE
                               /\ key \notin DOMAIN liked'
                               /\ toggled[key] = "true"
                          ELSE /\ answer'.value = TRUE
                               /\ key \in DOMAIN liked'
                               /\ liked'[key].id = key
                               /\ toggled[key] # "true"
                 /\ answer'.op = "isLiked"
                    => /\ answer'.value = (key \in DOMAIN liked)
                       /\ liked' = liked
                       /\ toggled[key] # "none"
                             => answer'.value = (toggled[key] = "true")]_dbVars

\* the second toggleLike of the youtube track returned false and the store
\* is empty again
C20_Witness ==
    /\ answer = [op |-> "toggleLike", key |-> "youtube_v1",
                 state |-> "fulfilled", value |-> FALSE]
    /\ toggled["youtube_v1"] = "false"
    /\ DOMAIN liked = {}

\* C21: after any interleaving of toggleLike calls, two issued at once for
\* one track included, the liked store holds at most one entry per
\* (source, id), kept under the key of that identity, and a track whose n
\* toggles have returned is liked iff n is odd.
C21_OneEntryPerIdentity ==
    /\ \A t1, t2 \in Tracks : LikedKey(t1) = LikedKey(t2) => t1 = t2
    /\ \A k \in DOMAIN liked : k \in LikedKeys /\ liked[k].id = k
    /\ \A track \in Tracks :
          LikedKey(track) \in DOMAIN liked <=> parity[LikedKey(track)] = 1

\* two toggleLike calls for the youtube track are open at once, the older
\* one about to add the entry
C21_Witness ==
    /\ Len(txns) = 2
    /\ txns[1] = [op |-> "toggleLike", track |-> YT, stage |-> "add"]
    /\ txns[2] = [op |-> "toggleLike", track |-> YT, stage |-> "get"]
    /\ parity["youtube_v1"] = 0

(* ----------------------------- playlists ------------------------------- *)
\* request.result of store.get(id)
Got(store, id) == IF id \in DOMAIN store THEN store[id] ELSE NoRecord

\* { ...playlist, ...updates, modified: Date.now() }, updates = { tracks }
Updated(playlist, tracks, t) ==
    [id |-> playlist.id, tracks |-> tracks, modified |-> t]

\* store.put(value) on a store with keyPath 'id' and autoIncrement: a value
\* without id is stored under the key the generator gives
Put(store, value, generated) ==
    LET key == IF value.id = 0 THEN generated ELSE value.id
    IN [k \in DOMAIN store \cup {key} |->
            IF k = key THEN [value EXCEPT !.id = key] ELSE store[k]]

\* A transaction takes requests only while it is active: in the task that
\* created it and in the callbacks of its own requests. `running` is the
\* transaction whose request callback is being run.
Active(txn, running) == txn = running

InProgress(c) == pcalls[c].pc # "done"

\* a call starts in slot c; what finished calls returned is kept until then
Call(c, name, id, track, tracks, pc) ==
    pcalls' = [d \in CallIds |->
                 IF d = c
                 THEN [op |-> name, id |-> id, track |-> track,
                       tracks |-> tracks, seen |-> <<>>, pc |-> pc,
                       state |-> "pending", value |-> FALSE, error |-> ""]
                 ELSE IF InProgress(d) THEN pcalls[d] ELSE NoCall]

\* the promise of call c settles
Settle(c, state, value, error) ==
    [pcalls EXCEPT ![c].pc = "done", ![c].state = state,
                   ![c].value = value, ![c].error = error]

\* the two transactions updatePlaylist opens before it suspends: its own
\* readwrite one, on which it places no request, and getPlaylist's
UpdateTxns(c, id) ==
    <<[call |-> c, req |-> "none", id |-> id],
      [call |-> c, req |-> "get", id |-> id]>>

createPlaylist ==
    /\ Len(ptxns) < MaxTxns
    /\ keyGenerator
         + Cardinality({k \in 1..Len(ptxns) : ptxns[k].req = "add"})
         < MaxPlaylists
    /\ ptxns' = Append(ptxns, [call |-> 0, req |-> "add", id |-> 0])
    /\ UNCHANGED <<playlists, keyGenerator, pcalls, now>>

deletePlaylist(id) ==
    /\ Len(ptxns) < MaxTxns
    /\ ptxns' = Append(ptxns, [call |-> 0, req |-> "delete", id |-> id])
    /\ UNCHANGED <<playlists, keyGenerator, pcalls, now>>

\* addToPlaylist up to `await this.getPlaylist(playlistId)`
addToPlaylist(c, playlistId, track) ==
    /\ ~InProgress(c)
    /\ Len(ptxns) < MaxTxns
    /\ Call(c, "addToPlaylist", playlistId, track, <<>>, "read")
    /\ ptxns' = Append(ptxns, [call |-> c, req |-> "get", id |-> playlistId])
    /\ UNCHANGED <<playlists, keyGenerator, now>>

\* updatePlaylist up to `await this.getPlaylist(id)`
updatePlaylist(c, id, tracks) ==
    /\ ~InProgress(c)
    /\ Len(ptxns) < MaxTxns
    /\ Call(c, "updatePlaylist", id, YT, tracks, "merge")
    /\ ptxns' = ptxns \o UpdateTxns(c, id)
    /\ UNCHANGED <<playlists, keyGenerator, now>>

\* a transaction with no request placed commits once it has started
autoCommit ==
    /\ ptxns # <<>>
    /\ Head(ptxns).req = "none"
    /\ ptxns' = Tail(ptxns)
    /\ UNCHANGED <<playlists, keyGenerator, pcalls, now>>

\* createPlaylist's store.add succeeds
addSucceeds ==
    /\ ptxns # <<>>
    /\ Head(ptxns).req = "add"
    /\ playlists' = Put(playlists, [NoRecord EXCEPT !.modified = now],
                        keyGenerator + 1)
    /\ keyGenerator' = keyGenerator + 1
    /\ ptxns' = Tail(ptxns)
    /\ UNCHANGED <<pcalls, now>>

\* deletePlaylist's store.delete succeeds
deleteSucceeds ==
    /\ ptxns # <<>>
    /\ Head(ptxns).req = "delete"
    /\ playlists' = [k \in DOMAIN playlists \ {Head(ptxns).id} |->
                        playlists[k]]
    /\ ptxns' = Tail(ptxns)
    /\ UNCHANGED <<keyGenerator, pcalls, now>>

\* addToPlaylist after its await: playlist.tracks.some(...), push,
\* `await this.updatePlaylist(...)` up to that call's own await
addToPlaylistContinue(c, playlist) ==
    LET call == pcalls[c]
        exists == \E i \in 1..Len(playlist.tracks) :
                     /\ playlist.tracks[i].id = call.track.id
                     /\ playlist.tracks[i].source = call.track.source
    IN /\ IF playlist.id = 0
          THEN /\ pcalls' = Settle(c, "rejected", FALSE, "TypeError")
               /\ ptxns' = Tail(ptxns)
          ELSE IF exists
          THEN /\ pcalls' = [Settle(c, "fulfilled", FALSE, "")
                               EXCEPT ![c].seen = playlist.tracks]
               /\ ptxns' = Tail(ptxns)
          ELSE /\ pcalls' = [pcalls EXCEPT
                               ![c].pc = "merge",
                               ![c].seen = playlist.tracks,
                               ![c].tracks =
                                   Append(playlist.tracks, call.track)]
               /\ ptxns' = Tail(ptxns) \o UpdateTxns(c, call.id)
       /\ UNCHANGED <<playlists, keyGenerator, now>>

\* updatePlaylist after its await: the merge and store.put(updated) on the
\* transaction opened before the await. A put on a transaction that is not
\* active throws TransactionInactiveError inside the promise executor, so
\* the promise rejects; addToPlaylist's await rethrows it.
updatePlaylistContinue(c, playlist) ==
    LET call == pcalls[c]
        updated == Updated(playlist, call.tracks, now)
    IN /\ IF Active([call |-> c, req |-> "none", id |-> call.id],
                    Head(ptxns))
          THEN /\ playlists' = Put(playlists, updated, keyGenerator + 1)
               /\ keyGenerator' = IF updated.id = 0 THEN keyGenerator + 1
                                                   ELSE keyGenerator
               /\ pcalls' = Settle(c, "fulfilled", TRUE, "")
          ELSE /\ pcalls' = Settle(c, "rejected", FALSE,
                                   "TransactionInactiveError")
               /\ UNCHANGED <<playlists, keyGenerator>>
       /\ ptxns' = Tail(ptxns)
       /\ UNCHANGED now

\* getPlaylist's request.onsuccess: the awaiting call goes on
getPlaylistResolves ==
    /\ ptxns # <<>>
    /\ Head(ptxns).req = "get"
    /\ LET c == Head(ptxns).call
           playlist == Got(playlists, Head(ptxns).id)
       IN IF pcalls[c].pc = "read"
          THEN addToPlaylistContinue(c, playlist)
          ELSE updatePlaylistContinue(c, playlist)

\* the tracks a direct updatePlaylist call passes
UpdateTracks == {<<>>, <<AU>>}

DeletePlaylist == \E id \in PlaylistIds : deletePlaylist(id)
AddToPlaylist ==
    \E c \in CallIds, id \in PlaylistIds, track \in Tracks :
        addToPlaylist(c, id, track)
UpdatePlaylist ==
    \E c \in CallIds, id \in PlaylistIds, tracks \in UpdateTracks :
        updatePlaylist(c, id, tracks)

playlistFrame ==
    <<vars, uiVars, cache, inflight, reply, searchVars, trendingVars,
      overlapVars, streamVars, dbVars, historyVars, offlineVars, syncVars>>

PlaylistNext ==
    \/ createPlaylist /\ UNCHANGED playlistFrame
    \/ DeletePlaylist /\ UNCHANGED playlistFrame
    \/ AddToPlaylist /\ UNCHANGED playlistFrame
    \/ UpdatePlaylist /\ UNCHANGED playlistFrame
    \/ autoCommit /\ UNCHANGED playlistFrame
    \/ addSucceeds /\ UNCHANGED playlistFrame
    \/ deleteSucceeds /\ UNCHANGED playlistFrame
    \/ getPlaylistResolves /\ UNCHANGED playlistFrame
    \/ Later /\ UNCHANGED <<playlistVars, playlistFrame>>

PlaylistSpec == Init /\ [][PlaylistNext]_allVars

\* call c, made through `name`, returns in this step
Returns(c, name) ==
    /\ pcalls[c].pc # "done"
    /\ pcalls'[c].pc = "done"
    /\ pcalls'[c].op = name

\* some entry of tracks has the identity of track
Holds(tracks, track) ==
    \E i \in 1..Len(tracks) :
        tracks[i].id = track.id /\ tracks[i].source = track.source

\* C22: addToPlaylist on a playlist that holds a track of the same
\* (source, id) returns false and leaves the store as it was; on a playlist
\* that does not, it returns true and the playlist's tracks become the ones
\* it read with the track appended; and no playlist holds two tracks of one
\* identity.
C22_AddToPlaylistIdempotent ==
    [][/\ \A c \in CallIds :
            Returns(c, "addToPlaylist") /\ pcalls[c].id \in DOMAIN playlists
            => LET call == pcalls'[c]
               IN /\ call.state = "fulfilled"
                  /\ IF Holds(call.seen, call.track)
                     THEN call.value = FALSE /\ playlists' = playlists
                     ELSE /\ call.value = TRUE
                          /\ call.id \in DOMAIN playlists'
                          /\ playlists'[call.id].tracks =
                                 Append(call.seen, call.track)
       /\ \A id \in DOMAIN playlists' :
            \A i, j \in 1..Len(playlists'[id].tracks) :
                Holds(<<playlists'[id].tracks[i]>>, playlists'[id].tracks[j])
                => i = j
      ]_allVars

\* C23: updatePlaylist on an id that is not in the store rejects with
\* NotFound, and the store is left as it was.
C23_UpdateAbsentNotFound ==
    [][\A c \in CallIds :
            Returns(c, "updatePlaylist") /\ pcalls[c].id \notin DOMAIN playlists
            => /\ pcalls'[c].state = "rejected"
               /\ pcalls'[c].error = "NotFound"
               /\ playlists' = playlists
      ]_allVars

\* C28: when two addToPlaylist calls on one playlist, for two different
\* tracks, were in progress together, both found the playlist and both have
\* returned, both returned true and the playlist holds both tracks.
C28_ConcurrentAddsBothApply ==
    \A c, d \in CallIds :
        /\ c # d
        /\ pcalls[c].op = "addToPlaylist" /\ pcalls[d].op = "addToPlaylist"
        /\ pcalls[c].pc = "done" /\ pcalls[d].pc = "done"
        /\ pcalls[c].id = pcalls[d].id
        /\ pcalls[c].track # pcalls[d].track
        /\ pcalls[c].error # "TypeError" /\ pcalls[d].error # "TypeError"
        /\ pcalls[c].id \in DOMAIN playlists
        => /\ pcalls[c].state = "fulfilled" /\ pcalls[c].value
           /\ pcalls[d].state = "fulfilled" /\ pcalls[d].value
           /\ Holds(playlists[pcalls[c].id].tracks, pcalls[c].track)
           /\ Holds(playlists[pcalls[c].id].tracks, pcalls[d].track)

(* ------------------- play history and search history ------------------ *)
\* 30 * 24 * 60 * 60 * 1000 milliseconds, counted in days
thirtyDays == 30
\* the days on which something happens
Dates == {0, 1, thirtyDays + 1}
Queries == {"a", "b", "c"}
\* the limits getSearchHistory is called with (10 is its default)
Limits == {2, 10}

\* no cleanup transaction is open: a transaction on either store starts
\* only after the ones opened before it have finished
Quiet == sweep.state # "running"

\* a record comes before another in the 'timestamp' index: by timestamp,
\* then by primary key
IndexBefore(e1, e2) ==
    \/ e1.timestamp < e2.timestamp
    \/ e1.timestamp = e2.timestamp /\ e1.id < e2.id

RECURSIVE IndexSorted(_)
\* index.getAll() over a set of 'searchHistory' records
IndexSorted(entries) ==
    IF entries = {} THEN <<>>
    ELSE LET first == CHOOSE e \in entries :
                          \A o \in entries \ {e} : IndexBefore(e, o)
         IN <<first>> \o IndexSorted(entries \ {first})

\* the searches left oldest first
Reverse_m(q) == q

\* q.reverse()
Reverse(q) == [i \in 1..Len(q) |-> q[Len(q) + 1 - i]]

RECURSIVE Unique(_, _)
\* the forEach of getSearchHistory: push the searches whose query was not
\* seen yet
Unique(searches, seen) ==
    IF searches = <<>> THEN <<>>
    ELSE IF Head(searches).query \in seen
         THEN Unique(Tail(searches), seen)
         ELSE <<Head(searches)>>
              \o Unique(Tail(searches), seen \cup {Head(searches).query})

\* q.slice(0, limit)
Slice(q, limit) == SubSeq(q, 1, IF limit < Len(q) THEN limit ELSE Len(q))

\* what getSearchHistory(limit) resolves with
SearchHistoryOf(store, limit) ==
    Slice(Unique(Reverse(IndexSorted({store[k] : k \in DOMAIN store})), {}),
          limit)

addToSearchHistory(query) ==
    /\ Quiet
    /\ searchKey' = searchKey + 1
    /\ searchHistory' =
         [k \in DOMAIN searchHistory \cup {searchKey + 1} |->
            IF k = searchKey + 1
            THEN [id |-> k, query |-> query, timestamp |-> date]
            ELSE searchHistory[k]]
    /\ found' = [op |-> "addToSearchHistory", limit |-> 0, value |-> <<>>]
    /\ UNCHANGED <<history, date, sweep, played>>

getSearchHistory(limit) ==
    /\ Quiet
    /\ found' = [op |-> "getSearchHistory", limit |-> limit,
                 value |-> SearchHistoryOf(searchHistory, limit)]
    /\ UNCHANGED <<history, searchHistory, searchKey, date, sweep, played>>

removeFromSearchHistory(id) ==
    /\ Quiet
    /\ searchHistory' = [k \in DOMAIN searchHistory \ {id} |->
                            searchHistory[k]]
    /\ found' = [op |-> "removeFromSearchHistory", limit |-> 0,
                 value |-> <<>>]
    /\ UNCHANGED <<history, searchKey, date, sweep, played>>

\* store.add: the key is in the store already (ConstraintError)
Taken(store, key) == key \in DOMAIN store

\* addToHistory: the entry spreads the track, so it carries the track's id,
\* which the store (keyPath 'id') takes as its key; store.add fails on a key
\* that is present
addToHistory(track) ==
    /\ Quiet
    /\ history' =
         IF Taken(history, track.id) THEN history
         ELSE [k \in DOMAIN history \cup {track.id} |->
                 IF k = track.id
                 THEN [id |-> k, trackId |-> LikedKey(track),
                       timestamp |-> date]
                 ELSE history[k]]
    /\ played' = [op |-> "addToHistory",
                  state |-> IF Taken(history, track.id) THEN "rejected"
                                                        ELSE "fulfilled",
                  track |-> track, limit |-> 0, value |-> <<>>]
    /\ UNCHANGED <<searchHistory, searchKey, date, sweep, found>>

\* 'a1' < 'v1': the order of the keys the tracks give their entries
KeyRank(id) == IF id = "a1" THEN 1 ELSE 2

\* an entry comes before another in history's 'timestamp' index
PlayBefore(e1, e2) ==
    \/ e1.timestamp < e2.timestamp
    \/ e1.timestamp = e2.timestamp /\ KeyRank(e1.id) < KeyRank(e2.id)

RECURSIVE PlaySorted(_)
\* index.getAll() over a set of 'history' records
PlaySorted(entries) ==
    IF entries = {} THEN <<>>
    ELSE LET first == CHOOSE e \in entries :
                          \A o \in entries \ {e} : PlayBefore(e, o)
         IN <<first>> \o PlaySorted(entries \ {first})

\* the limits getPlayHistory is called with (50 is its default)
PlayLimits == {1, 50}

\* what getPlayHistory(limit) resolves with
PlayHistoryOf(store, limit) ==
    Slice(Reverse(PlaySorted({store[k] : k \in DOMAIN store})), limit)

getPlayHistory(limit) ==
    /\ Quiet
    /\ played' = [op |-> "getPlayHistory", state |-> "fulfilled",
                  track |-> Null, limit |-> limit,
                  value |-> PlayHistoryOf(history, limit)]
    /\ UNCHANGED <<history, searchHistory, searchKey, date, sweep, found>>

clearHistory ==
    /\ Quiet
    /\ history' = [k \in {} |-> NoPlay]
    /\ UNCHANGED <<searchHistory, searchKey, date, sweep, found, played>>

\* IDBKeyRange.upperBound(x) holds the keys up to x, x included
UpperBound(x, key) == key <= x

\* cleanup(): the bound and the transaction over both stores; it returns
\* without waiting for the cursors
cleanup ==
    /\ Quiet
    /\ sweep' = [state |-> "running", bound |-> date - thirtyDays,
                 at |-> date, history |-> history,
                 searchHistory |-> searchHistory]
    /\ UNCHANGED <<history, searchHistory, searchKey, date, found, played>>

\* the records of a store the cursor has still to visit
InRange(store) ==
    {k \in DOMAIN store : UpperBound(sweep.bound, store[k].timestamp)}

\* the cursor over history's timestamp index: cursor.delete(), continue()
historyCursor ==
    /\ sweep.state = "running"
    /\ \E k \in InRange(history) :
         /\ \A o \in InRange(history) :
                history[k].timestamp <= history[o].timestamp
         /\ history' = [j \in DOMAIN history \ {k} |-> history[j]]
    /\ UNCHANGED <<searchHistory, searchKey, date, sweep, found, played>>

\* the cursor over searchHistory's timestamp index
searchCursor ==
    /\ sweep.state = "running"
    /\ \E k \in InRange(searchHistory) :
         /\ \A o \in InRange(searchHistory) \ {k} :
                IndexBefore(searchHistory[k], searchHistory[o])
         /\ searchHistory' = [j \in DOMAIN searchHistory \ {k} |->
                                 searchHistory[j]]
    /\ UNCHANGED <<history, searchKey, date, sweep, found, played>>

\* both cursors came to their end: the transaction commits
cleanupCommits ==
    /\ sweep.state = "running"
    /\ InRange(history) = {}
    /\ InRange(searchHistory) = {}
    /\ sweep' = [state |-> "done", bound |-> 0, at |-> 0,
                 history |-> [k \in {} |-> NoPlay],
                 searchHistory |-> [k \in {} |-> NoEntry]]
    /\ UNCHANGED <<history, searchHistory, searchKey, date, found, played>>

\* days pass
Passes ==
    /\ \E d \in Dates : d > date /\ date' = d
    /\ UNCHANGED <<history, searchHistory, searchKey, sweep, found, played>>

AddToSearchHistory ==
    \E query \in Queries : searchKey < MaxSearches /\ addToSearchHistory(query)
GetSearchHistory == \E limit \in Limits : getSearchHistory(limit)
RemoveFromSearchHistory ==
    \E id \in DOMAIN searchHistory : removeFromSearchHistory(id)
AddToHistory == \E track \in Tracks : addToHistory(track)
\* a search is saved, where the sweep is followed
SaveSearch ==
    \E query \in Queries : searchKey < MaxSwept /\ addToSearchHistory(query)

historyFrame ==
    <<vars, uiVars, cacheVars, searchVars, trendingVars, overlapVars,
      streamVars, dbVars, playlistVars, offlineVars, syncVars>>

SearchHistoryNext ==
    \/ AddToSearchHistory /\ UNCHANGED historyFrame
    \/ GetSearchHistory /\ UNCHANGED historyFrame
    \/ RemoveFromSearchHistory /\ UNCHANGED historyFrame
    \/ Passes /\ UNCHANGED historyFrame

SearchHistorySpec == Init /\ [][SearchHistoryNext]_allVars

RetentionNext ==
    \/ SaveSearch /\ UNCHANGED historyFrame
    \/ AddToHistory /\ UNCHANGED historyFrame
    \/ clearHistory /\ UNCHANGED historyFrame
    \/ cleanup /\ UNCHANGED historyFrame
    \/ historyCursor /\ UNCHANGED historyFrame
    \/ searchCursor /\ UNCHANGED historyFrame
    \/ cleanupCommits /\ UNCHANGED historyFrame
    \/ Passes /\ UNCHANGED historyFrame

RetentionSpec == Init /\ [][RetentionNext]_allVars

GetPlayHistory == \E limit \in PlayLimits : getPlayHistory(limit)

PlayHistoryNext ==
    \/ AddToHistory /\ UNCHANGED historyFrame
    \/ GetPlayHistory /\ UNCHANGED historyFrame
    \/ clearHistory /\ UNCHANGED historyFrame
    \/ cleanup /\ UNCHANGED historyFrame
    \/ historyCursor /\ UNCHANGED historyFrame
    \/ cleanupCommits /\ UNCHANGED historyFrame
    \/ Passes /\ UNCHANGED historyFrame

PlayHistorySpec == Init /\ [][PlayHistoryNext]_allVars

\* the saved searches, as a set of records
Saved == {searchHistory[k] : k \in DOMAIN searchHistory}
\* e is the most recent saved search for its query
MostRecent(e) ==
    /\ e \in Saved
    /\ \A o \in Saved : o.query = e.query /\ o # e => IndexBefore(o, e)

\* C24: getSearchHistory(limit) returns at most limit entries with pairwise
\* distinct queries, each the most recent saved search for its query, the
\* more recent first; they are the limit most recent queries (all of them
\* when there are fewer).
C24_SearchHistoryDedup ==
    found.op = "getSearchHistory"
    => LET r == found.value
           distinct == {e.query : e \in Saved}
       IN /\ Len(r) <= found.limit
          /\ \A i, j \in 1..Len(r) : r[i].query = r[j].query => i = j
          /\ \A i \in 1..Len(r) : MostRecent(r[i])
          /\ \A i, j \in 1..Len(r) : i < j => IndexBefore(r[j], r[i])
          /\ Len(r) = IF Cardinality(distinct) < found.limit
                      THEN Cardinality(distinct) ELSE found.limit
          /\ \A e \in Saved :
                MostRecent(e) /\ (\A i \in 1..Len(r) : r[i] # e)
                => \A i \in 1..Len(r) : IndexBefore(e, r[i])

\* a, b, a, c were saved in this order and read with the default limit:
\* the answer is c, a, b
C24_Witness ==
    /\ found.op = "getSearchHistory"
    /\ found.limit = 10
    /\ DOMAIN searchHistory = 1..4
    /\ <<searchHistory[1].query, searchHistory[2].query,
         searchHistory[3].query, searchHistory[4].query>>
         = <<"a", "b", "a", "c">>
    /\ Len(found.value) = 3
    /\ <<found.value[1].query, found.value[2].query, found.value[3].query>>
         = <<"c", "a", "b">>
    /\ found.value[2].id = 3

\* C27: when the cleanup() transaction commits, every History and
\* SearchHistory entry it found with a timestamp more than 30 days before
\* the call is gone, and every entry it found with a timestamp 30 days
\* before the call or later is still there.
C27_RetentionSweep ==
    [][sweep.state = "running" /\ sweep'.state = "done"
       => /\ \A k \in DOMAIN sweep.history :
                k \in DOMAIN history'
                <=> sweep.history[k].timestamp >= sweep.at - thirtyDays
          /\ \A k \in DOMAIN sweep.searchHistory :
                k \in DOMAIN searchHistory'
                <=> sweep.searchHistory[k].timestamp >= sweep.at - thirtyDays
      ]_allVars

(* ------------------------ offline tracks, downloads -------------------- *)
\* blob.size of the blobs saved
BlobSizes == {1, 2}

\* the stores as committed
Committed == [offlineTracks |-> offlineTracks, downloads |-> downloads]

\* store.put(value) under the value's id
PutRecord(store, value) ==
    [k \in DOMAIN store \cup {value.id} |->
        IF k = value.id THEN value ELSE store[k]]

\* store.delete(key)
DeleteRecord(store, key) == [k \in DOMAIN store \ {key} |-> store[k]]

\* a transaction that keeps what it wrote before it failed
Aborted_m(committed, written) == written

\* What an aborted transaction leaves: a request's error event that no
\* handler cancels aborts its transaction, and every write of the
\* transaction is undone.
Aborted(committed, written) == committed

\* saveOfflineTrack: one readwrite transaction over both stores, and the
\* two puts placed on it
saveOfflineTrack(track, size) ==
    /\ Len(otxns) < MaxTxns
    /\ otxns' = Append(otxns, [op |-> "saveOfflineTrack",
                               key |-> LikedKey(track), size |-> size,
                               requests |-> <<"offlineTracks", "downloads">>])
    /\ UNCHANGED <<offlineTracks, downloads, staged, saved>>

\* deleteDownload: one readwrite transaction over both stores, and the two
\* deletes placed on it
deleteDownload(trackId) ==
    /\ Len(otxns) < MaxTxns
    /\ otxns' = Append(otxns, [op |-> "deleteDownload", key |-> trackId,
                               size |-> 0,
                               requests |-> <<"offlineTracks", "downloads">>])
    /\ UNCHANGED <<offlineTracks, downloads, staged, saved>>

\* the next request of the oldest transaction succeeds
writeDone ==
    /\ otxns # <<>>
    /\ Head(otxns).requests # <<>>
    /\ LET txn == Head(otxns)
           store == Head(txn.requests)
           value == IF store = "offlineTracks"
                    THEN [id |-> txn.key, blob |-> txn.size]
                    ELSE [id |-> txn.key, size |-> txn.size]
       IN /\ staged' = [staged EXCEPT ![store] =
                          IF txn.op = "saveOfflineTrack"
                          THEN PutRecord(@, value)
                          ELSE DeleteRecord(@, txn.key)]
          /\ otxns' = [otxns EXCEPT ![1].requests = Tail(@)]
    /\ UNCHANGED <<offlineTracks, downloads, saved>>

\* the next request of the oldest transaction fails: transaction.onerror
\* rejects, and the transaction aborts
writeFails ==
    /\ otxns # <<>>
    /\ Head(otxns).requests # <<>>
    /\ LET left == Aborted(Committed, staged)
       IN /\ offlineTracks' = left.offlineTracks
          /\ downloads' = left.downloads
          /\ staged' = left
    /\ saved' = [op |-> Head(otxns).op, key |-> Head(otxns).key,
                 state |-> "rejected",
                 failed |-> Head(Head(otxns).requests),
                 before |-> Committed]
    /\ otxns' = Tail(otxns)

\* every request of the oldest transaction succeeded: it commits, and
\* transaction.oncomplete resolves with true
transactionCompletes ==
    /\ otxns # <<>>
    /\ Head(otxns).requests = <<>>
    /\ offlineTracks' = staged.offlineTracks
    /\ downloads' = staged.downloads
    /\ saved' = [op |-> Head(otxns).op, key |-> Head(otxns).key,
                 state |-> "fulfilled", failed |-> "", before |-> Committed]
    /\ otxns' = Tail(otxns)
    /\ UNCHANGED staged

SaveOfflineTrack ==
    \E track \in Tracks, size \in BlobSizes : saveOfflineTrack(track, size)
DeleteDownload == \E trackId \in LikedKeys : deleteDownload(trackId)

offlineFrame ==
    <<vars, uiVars, cacheVars, searchVars, trendingVars, overlapVars,
      streamVars, dbVars, playlistVars, historyVars, syncVars>>

OfflineNext ==
    \/ SaveOfflineTrack /\ UNCHANGED offlineFrame
    \/ DeleteDownload /\ UNCHANGED offlineFrame
    \/ writeDone /\ UNCHANGED offlineFrame
    \/ writeFails /\ UNCHANGED offlineFrame
    \/ transactionCompletes /\ UNCHANGED offlineFrame

OfflineSpec == Init /\ [][OfflineNext]_allVars

\* C25: an id is in 'downloads' iff it is in 'offlineTracks'; a
\* saveOfflineTrack or deleteDownload whose write failed has rejected and
\* left both stores as its transaction found them; a saveOfflineTrack that
\* resolved left both records, a deleteDownload that resolved left neither.
C25_AtomicDualWrite ==
    /\ DOMAIN downloads = DOMAIN offlineTracks
    /\ saved.state = "rejected" => Committed = saved.before
    /\ saved.state = "fulfilled" /\ saved.op = "saveOfflineTrack"
       => /\ saved.key \in DOMAIN downloads
          /\ saved.key \in DOMAIN offlineTracks
          /\ downloads[saved.key].size = offlineTracks[saved.key].blob
    /\ saved.state = "fulfilled" /\ saved.op = "deleteDownload"
       => saved.key \notin DOMAIN downloads \cup DOMAIN offlineTracks

\* a saveOfflineTrack whose first put succeeded and whose second failed has
\* rejected, and its track is in neither store
C25_Witness ==
    /\ saved.op = "saveOfflineTrack"
    /\ saved.state = "rejected"
    /\ saved.failed = "downloads"
    /\ saved.key \notin DOMAIN offlineTracks
    /\ saved.key \notin DOMAIN downloads

(* --------------------------- pending actions --------------------------- *)
\* the types actions are queued with; processAction has a case for the
\* first two
ActionTypes == {"like", "playlist", "share"}
\* what the network does with a replayed request: a 2xx response, another
\* response, or no response
FetchOutcomes == {"ok", "status", "down"}

\* store.getAll(): the IDBRequest it returns; the records are its result
\* once it succeeded
GetAll(store) == [kind |-> "IDBRequest", result |-> store]

\* `await v`: the value a promise settles with; a value that is no promise
\* or thenable, such as an IDBRequest, is itself what the await gives
Awaited(v) == v

\* `for (const x of v)` takes an iterable
Iterable(v) == v.kind = "Array"

\* processAction(action) returns without throwing: fetch resolves with
\* whatever response came and rejects only when none did; the default
\* branch logs and returns
Processed(action, net) ==
    IF action.type \in {"like", "playlist"} THEN net # "down" ELSE TRUE

\* the replay of the action reached the server and was accepted
Replayed(action, net) == action.type \in {"like", "playlist"} /\ net = "ok"

addPendingAction(type) ==
    /\ actionKey < MaxActions
    /\ actionKey' = actionKey + 1
    /\ pendingActions' =
         [k \in DOMAIN pendingActions \cup {actionKey + 1} |->
            IF k = actionKey + 1 THEN [id |-> k, type |-> type]
                                 ELSE pendingActions[k]]
    /\ UNCHANGED sync

clearPendingActions ==
    /\ pendingActions' = [k \in {} |-> NoAction]
    /\ UNCHANGED <<actionKey, sync>>

\* the sync event with tag 'sync-queue': syncQueue up to `await openDB()`
syncQueue ==
    /\ sync.state # "opening"
    /\ sync' = [state |-> "opening", error |-> "", attempted |-> {},
                replayed |-> {}]
    /\ UNCHANGED <<pendingActions, actionKey>>

\* syncQueue from there to its return. The loop's awaits are taken at once
\* for every action: net gives the network's answer to each replay.
syncQueueContinue ==
    /\ sync.state = "opening"
    /\ LET actions == Awaited(GetAll(pendingActions))
       IN IF ~Iterable(actions)
          THEN /\ sync' = [state |-> "rejected", error |-> "TypeError",
                           attempted |-> {}, replayed |-> {}]
               /\ UNCHANGED pendingActions
          ELSE \E net \in [DOMAIN actions.result -> FetchOutcomes] :
                 LET removed == {k \in DOMAIN actions.result :
                                    Processed(actions.result[k], net[k])}
                 IN /\ pendingActions' =
                         [k \in DOMAIN pendingActions \ removed |->
                             pendingActions[k]]
                    /\ sync' = [state |-> "fulfilled", error |-> "",
                                attempted |-> DOMAIN actions.result,
                                replayed |->
                                  {k \in DOMAIN actions.result :
                                     Replayed(actions.result[k], net[k])}]
    /\ UNCHANGED actionKey

AddPendingAction == \E type \in ActionTypes : addPendingAction(type)

syncFrame ==
    <<vars, uiVars, cacheVars, searchVars, trendingVars, overlapVars,
      streamVars, dbVars, playlistVars, historyVars, offlineVars>>

SyncNext ==
    \/ AddPendingAction /\ UNCHANGED syncFrame
    \/ clearPendingActions /\ UNCHANGED syncFrame
    \/ syncQueue /\ UNCHANGED syncFrame
    \/ syncQueueContinue /\ UNCHANGED syncFrame

SyncSpec == Init /\ [][SyncNext]_allVars

\* C26: when syncQueue returns, it has passed every action that was pending
\* to processAction, whatever happened to the ones before it, and the
\* actions it has deleted are the ones whose replay succeeded: an action
\* whose replay failed or whose type has no handler is still in the store.
C26_ConsumedAfterReplay ==
    [][sync.state = "opening" /\ sync'.state # "opening"
       => /\ \A k \in DOMAIN pendingActions : k \in sync'.attempted
          /\ \A k \in DOMAIN pendingActions :
                k \notin DOMAIN pendingActions' => k \in sync'.replayed
      ]_allVars

Proceeds_m(outcome) == TRUE

\* playTrack goes on past `await getStreamURL(track)` when the URL came; a
\* rejection takes it to the catch block, which ends the call
Proceeds(outcome) == outcome # "error"

\* The k-th suspended playTrack call resumes: on a URL it runs to
\* `await this.audio.play()`, on a rejection the catch block shows the
\* toast.
playTrackResume(k, outcome) ==
    /\ Proceeds(outcome) => Len(started) < MaxPending
    /\ playTrackResolve(k, outcome)
    /\ started' = IF Proceeds(outcome)
                  THEN Append(started, [track |-> pending[k].track,
                                        stage |-> "play"])
                  ELSE started
    /\ toast' = IF outcome = "error" THEN "Failed to play track" ELSE toast
    /\ UNCHANGED <<resolving, stream, historyVars>>

\* audio.play() settles for the oldest call waiting for it: resolved, the
\* call goes on to `await window.app.db.addToHistory(track)`; rejected, the
\* catch block shows the toast
audioPlaySettles(ok) ==
    /\ started # <<>>
    /\ Head(started).stage = "play"
    /\ started' = IF ok THEN [started EXCEPT ![1].stage = "history"]
                        ELSE Tail(started)
    /\ toast' = IF ok THEN toast ELSE "Failed to play track"
    /\ UNCHANGED <<resolving, stream, historyVars, vars>>

\* addToHistory settles for the oldest call waiting for it: store.add
\* rejects when the key is taken, and the catch block shows the toast
historySettles ==
    /\ started # <<>>
    /\ Head(started).stage = "history"
    /\ addToHistory(Head(started).track)
    /\ toast' = IF Head(started).track.id \in DOMAIN history
                THEN "Failed to play track" ELSE toast
    /\ started' = Tail(started)
    /\ UNCHANGED <<resolving, stream, vars>>

PlayTrackResume ==
    \E k \in 1..Len(pending), outcome \in {"url", "error"} :
        playTrackResume(k, outcome)
AudioPlaySettles == \E ok \in BOOLEAN : audioPlaySettles(ok)

playFrame ==
    <<uiVars, cacheVars, searchVars, trendingVars, overlapVars, dbVars,
      playlistVars, offlineVars, syncVars>>

PlayNext ==
    \/ PlayNow /\ UNCHANGED <<streamVars, historyVars, playFrame>>
    \/ PlayTrackResume /\ UNCHANGED playFrame
    \/ AudioPlaySettles /\ UNCHANGED playFrame
    \/ historySettles /\ UNCHANGED playFrame
    \/ AddToQueue /\ UNCHANGED <<streamVars, historyVars, playFrame>>
    \/ RemoveFromQueue /\ UNCHANGED <<streamVars, historyVars, playFrame>>
    \/ clearHistory /\ UNCHANGED <<streamVars, vars, playFrame>>

PlaySpec == Init /\ [][PlayNext]_allVars

\* C30: a playTrack(track, true) whose stream URL came appends the track to
\* the queue and sets the cursor to queue.length - 1, so that
\* queue[queueIndex] and currentTrack are that track; one whose stream URL
\* was refused leaves the queue, the cursor and currentTrack as they were,
\* writes no history entry and does not go on to write one.
C30_PlayNow ==
    [][Len(pending') < Len(pending) /\ last'.op = "playTrack" /\ last'.a = 1
       => \E k \in 1..Len(pending) :
            /\ pending' = SpliceOut(pending, k - 1)
            /\ IF last'.b = 1
               THEN /\ queue' = Append(queue, pending[k].track)
                    /\ queueIndex' = Len(queue') - 1
                    /\ At(queue', queueIndex') = pending[k].track
                    /\ currentTrack' = pending[k].track
               ELSE /\ UNCHANGED <<queue, queueIndex, currentTrack>>
                    /\ UNCHANGED <<history, started>>
      ]_allVars

\* a play now of the audius track was refused its stream URL while the
\* youtube track was loaded and queued
C30_Witness ==
    /\ last.op = "playTrack" /\ last.a = 1 /\ last.b = 0
    /\ toast = "Failed to play track"
    /\ queue = <<YT>>
    /\ queueIndex = 0
    /\ currentTrack = YT

(* ------------------- mutation during stream resolution ----------------- *)
\* queueIndex = -1 iff the queue is empty, and otherwise it is an index
QueueInvariant ==
    /\ queueIndex = -1 <=> Len(queue) = 0
    /\ Len(queue) > 0 => queueIndex \in 0..(Len(queue) - 1)

\* C31: when removeFromQueue, reorderQueue or clearQueue ran while a
\* playTrack call was suspended on its stream URL and left the Queue
\* invariant holding, then once the call has loaded its track the invariant
\* still holds and queue[queueIndex] is currentTrack.
C31_MutationWhileSuspended ==
    [][(/\ last.op \in {"removeFromQueue", "reorderQueue", "clearQueue"}
        /\ QueueInvariant
        /\ Len(pending') < Len(pending)
        /\ last'.op = "playTrack" /\ last'.b = 1)
          => /\ QueueInvariant'
             /\ At(queue', queueIndex') = currentTrack'
      ]_vars

(* --------------------------- the source filter ------------------------- *)
\* the sources of the tracks of a list
SourcesOf(list) == {list[k].source : k \in 1..Len(list)}

\* C32: search(query, sourceFilter) issues a request to every provider when
\* sourceFilter is 'all', to exactly the named provider when it is youtube,
\* soundcloud or audius (the result then holds only tracks of that source),
\* and to no provider, returning the empty list, for any other sourceFilter.
C32_SourceFilter ==
    /\ sFilter = "all" => issued = ProviderSet
    /\ sFilter \in ProviderSet =>
          /\ issued = {sFilter}
          /\ returned.state = "fulfilled" =>
                SourcesOf(returned.value) \subseteq {sFilter}
    /\ sFilter \notin ProviderSet \cup {"all", "none"} =>
          /\ issued = {}
          /\ returned.state # "rejected"
          /\ returned.state = "fulfilled" => returned.value = <<>>

\* a search filtered to one provider has returned that provider's tracks
C32_Witness ==
    /\ sFilter = "soundcloud"
    /\ returned.state = "fulfilled"
    /\ Len(returned.value) = MaxResults

\* a search with a filter that names no provider has returned
C32_WitnessUnknown ==
    /\ sFilter = "spotify"
    /\ returned.state = "fulfilled"

(* ------------------------------ trending ------------------------------- *)
\* .slice(0, 20)
trendingLimit == 20

\* the lengths of the lists a trending provider returns
TrendingSizes == {0, 1, 2, MaxTrending}

\* the tracks of a list of n built by a trending provider's map()
TrendingItems(p, n) == [i \in 1..n |-> [id |-> ToString(i), source |-> p]]

\* What a trending provider's request comes back with: a response that maps
\* to a list of tracks, or a failure.
TrendingResponses(p) ==
    {[ok |-> TRUE, items |-> TrendingItems(p, n), back |-> TRUE] :
        n \in TrendingSizes}
        \cup {[ok |-> FALSE, items |-> <<>>, back |-> TRUE]}

\* getTrendingYouTube / getTrendingAudius: the list, or [] from the catch
\* block; the promise is fulfilled either way
trendingProvider(p, response) ==
    [status |-> "fulfilled",
     value |-> IF response.ok THEN response.items ELSE <<>>]

\* Math.random(): the k-th number of a call sequence, as a numerator over
\* RandomGrain
Randoms == [seed : 0..(RandomGrain - 1), stride : 0..(RandomGrain - 1)]
Random(rnd, k) == (rnd.seed + k * rnd.stride) % RandomGrain

\* an assignment that copies shuffled[j] over shuffled[i] and drops the latter
Swap_m(a, i, j) == [a EXCEPT ![i + 1] = a[j + 1]]

\* [shuffled[i], shuffled[j]] = [shuffled[j], shuffled[i]]
Swap(a, i, j) == [a EXCEPT ![i + 1] = a[j + 1], ![j + 1] = a[i + 1]]

\* the for loop of shuffleArray from index i down, before its k-th random
RECURSIVE ShuffleFrom(_, _, _, _)
ShuffleFrom(shuffled, i, rnd, k) ==
    IF i > 0
    THEN ShuffleFrom(Swap(shuffled, i, (Random(rnd, k) * (i + 1)) \div RandomGrain),
                     i - 1, rnd, k + 1)
    ELSE shuffled

\* shuffleArray(array)
shuffleArray(array, rnd) == ShuffleFrom(array, Len(array) - 1, rnd, 0)

\* array.slice(0, n)
SliceTo(array, n) ==
    [k \in 1..(IF Len(array) < n THEN Len(array) ELSE n) |-> array[k]]

\* if (x.status === 'fulfilled') results.push(...x.value)
PushFulfilled(list, x) ==
    IF x.status = "fulfilled" THEN list \o x.value ELSE list

\* getTrending() up to the await: both provider requests are issued
getTrending ==
    /\ trending.state # "pending"
    /\ trending' = [state |-> "pending", value |-> <<>>]
    /\ trendResponses' = [p \in TrendingProviders |-> NoResponse]

\* a trending provider's request comes back
trendingSettles(p, response) ==
    /\ trending.state = "pending"
    /\ ~trendResponses[p].back
    /\ trendResponses' = [trendResponses EXCEPT ![p] = response]
    /\ UNCHANGED trending

\* getTrending() after the await: collect, shuffle, slice
getTrendingReturn(rnd) ==
    /\ trending.state = "pending"
    /\ \A p \in TrendingProviders : trendResponses[p].back
    /\ LET youtube == trendingProvider("youtube", trendResponses["youtube"])
           audius == trendingProvider("audius", trendResponses["audius"])
           pushed == PushFulfilled(PushFulfilled(<<>>, youtube), audius)
       IN trending' = [state |-> "fulfilled",
                       value |-> SliceTo(shuffleArray(pushed, rnd),
                                         trendingLimit)]
    /\ UNCHANGED trendResponses

TrendingSettles ==
    \E p \in TrendingProviders : \E response \in TrendingResponses(p) :
        trendingSettles(p, response)
GetTrendingReturn == \E rnd \in Randoms : getTrendingReturn(rnd)

trendingFrame ==
    <<vars, uiVars, cacheVars, searchVars, overlapVars, streamVars, dbVars,
      storeVars>>

TrendingNext ==
    \/ getTrending /\ UNCHANGED trendingFrame
    \/ TrendingSettles /\ UNCHANGED trendingFrame
    \/ GetTrendingReturn /\ UNCHANGED trendingFrame

TrendingSpec == Init /\ [][TrendingNext]_allVars

\* the tracks the trending providers that succeeded returned, concatenated
TrendingPool ==
    (IF trendResponses["youtube"].ok
     THEN trendResponses["youtube"].items ELSE <<>>)
        \o (IF trendResponses["audius"].ok
            THEN trendResponses["audius"].items ELSE <<>>)

\* the number of places of list that hold x
Places(list, x) == Cardinality({k \in 1..Len(list) : list[k] = x})

\* C33: getTrending never rejects and returns min(20, n) tracks, n being the
\* number of tracks the trending providers that succeeded returned; the
\* tracks returned are distinct positions of that concatenation: none is
\* invented and none is duplicated.
C33_TrendingSample ==
    /\ trending.state # "rejected"
    /\ trending.state = "fulfilled" =>
          /\ Len(trending.value) =
                (IF Len(TrendingPool) < 20 THEN Len(TrendingPool) ELSE 20)
          /\ \A k \in 1..Len(trending.value) :
                Places(trending.value, trending.value[k])
                    <= Places(TrendingPool, trending.value[k])

\* getTrending has returned 20 of more than 20 tracks, not in pool order
C33_Witness ==
    /\ trending.state = "fulfilled"
    /\ Len(TrendingPool) > 20
    /\ Len(trending.value) = 20
    /\ trending.value # SliceTo(TrendingPool, 20)

(* ------------------------- updatePlaylist's write ----------------------- *)
\* C34: updatePlaylist(id, updates) on an existing playlist is fulfilled
\* having replaced exactly the fields named in updates (here tracks), set
\* modified to the current time, kept id and every other field, and changed
\* no other playlist: its write goes through a transaction that is still
\* active.
C34_UpdatePlaylistFrame ==
    [][\A c \in CallIds :
            Returns(c, "updatePlaylist") /\ pcalls[c].id \in DOMAIN playlists
            => LET call == pcalls'[c]
               IN /\ call.state = "fulfilled"
                  /\ DOMAIN playlists' = DOMAIN playlists
                  /\ playlists'[call.id] =
                        [playlists[call.id] EXCEPT !.tracks = call.tracks,
                                                   !.modified = now]
                  /\ \A id \in DOMAIN playlists \ {call.id} :
                        playlists'[id] = playlists[id]
      ]_allVars

(* ----------------------------- play history ---------------------------- *)
\* the entries of the history store, as a set of records
Plays == {history[k] : k \in DOMAIN history}

\* C35: getPlayHistory(limit) returns the min(limit, n) most recent of the n
\* history entries, most recent first; history entries are inserted
\* (addToHistory) or deleted in bulk (clearHistory, cleanup) and never
\* updated; and every play, a repeat play of one track included, produces
\* an entry of its own carrying the track's trackId.
C35_PlayHistory ==
    [][/\ played'.op = "getPlayHistory" /\ played' # played
          => LET r == played'.value
             IN /\ Len(r) = IF played'.limit < Cardinality(Plays)
                            THEN played'.limit ELSE Cardinality(Plays)
                /\ \A i, j \in 1..Len(r) :
                      i < j => r[i].timestamp >= r[j].timestamp
                /\ \A i \in 1..Len(r) : r[i] \in Plays
                /\ \A e \in Plays :
                      (\A i \in 1..Len(r) : r[i] # e)
                      => \A i \in 1..Len(r) : e.timestamp <= r[i].timestamp
       /\ \A k \in DOMAIN history \cap DOMAIN history' :
             history'[k] = history[k]
       /\ played'.op = "addToHistory" /\ played' # played
          => /\ played'.state = "fulfilled"
             /\ Cardinality(Plays') = Cardinality(Plays) + 1
             /\ \E e \in Plays' \ Plays :
                   e.trackId = LikedKey(played'.track)
      ]_allVars

C39_NoInflightDedup ==
    [][\A key \in Keys :
          /\ (/\ Calls(key)
              /\ BagIn(key, inflight)
              /\ ~HasFresh(key))
                 => /\ reply'.op = "fetch"
                    /\ CopiesIn(key, inflight') = CopiesIn(key, inflight) + 1
          /\ (/\ reply'.op = "resolve"
              /\ reply'.key = key
              /\ inflight' # inflight)
                 => cache'[key] = [data |-> reply'.data, timestamp |-> now]
      ]_cacheVars

\* two loads for one key overlapped; the first stored d1, and the second,
\* completing last, has stored d2 over the fresh entry
C39_Witness ==
    /\ reply.op = "resolve"
    /\ reply.fresh
    /\ reply.data = "d2"
    /\ cache[reply.key].data = "d2"
    /\ inflight = EmptyBag

(* ------------------------ current-track consistency -------------------- *)
\* C37: once every player operation has completed (no playTrack call is
\* suspended), failed stream-URL resolutions included, if currentTrack is
\* set and the queue is non-empty then the cursor is a valid index and
\* queue[queueIndex] is currentTrack.
C37_CurrentTrackConsistency ==
    (/\ pending = <<>>
     /\ currentTrack # Null
     /\ Len(queue) > 0)
        => /\ queueIndex \in 0..(Len(queue) - 1)
           /\ At(queue, queueIndex) = currentTrack

(* ----------------------- overlapping play-now calls -------------------- *)
\* playTrack(track) from the UI while other play-now calls may be suspended
playNowOverlapping(track) ==
    /\ playTrackSuspends(track, TRUE, MaxOverlap)
    /\ last' = Other
    /\ UNCHANGED <<queueVars, modeVars, mirrorVars, audioVars, finished>>

\* the last two entries of a log
LastTwo(log) == IF Len(log) > 2 THEN SubSeq(log, Len(log) - 1, Len(log))
                ELSE log

\* the k-th suspended call resumes, and the log takes note
resumeOverlapping(k, outcome) ==
    /\ playTrackResolve(k, outcome)
    /\ finished' = LastTwo(Append(finished,
                       [track |-> pending[k].track,
                        ok |-> outcome # "error",
                        others |-> Len(pending) - 1,
                        len |-> Len(queue)]))

PlayNowOverlapping == \E track \in Tracks : playNowOverlapping(track)
ResumeOverlapping ==
    \E k \in 1..Len(pending), outcome \in {"url", "error"} :
        resumeOverlapping(k, outcome)

overlapFrame ==
    <<uiVars, cacheVars, searchVars, trendingVars, streamVars, dbVars,
      storeVars>>

OverlapNext ==
    \/ PlayNowOverlapping /\ UNCHANGED overlapFrame
    \/ ResumeOverlapping /\ UNCHANGED overlapFrame

OverlapSpec == Init /\ [][OverlapNext]_allVars

\* the two calls that resumed last overlapped, both got their stream URL,
\* and no call is suspended
BothCompleted ==
    /\ Len(finished) = 2
    /\ finished[1].ok /\ finished[2].ok
    /\ finished[1].others >= 1
    /\ finished[2].others = 0

\* C38: when two playTrack(track, true) calls overlapped and both got their
\* stream URL, then whichever resumed first, each track was appended to the
\* queue exactly once, the cursor is queue.length - 1 and currentTrack is
\* the track at that index.
C38_OverlappingPlayNow ==
    BothCompleted
        => /\ Len(queue) = finished[1].len + 2
           /\ At(queue, Len(queue) - 2) = finished[1].track
           /\ At(queue, Len(queue) - 1) = finished[2].track
           /\ queueIndex = Len(queue) - 1
           /\ currentTrack = At(queue, queueIndex)

\* play now of the youtube track, then of the audius track before the first
\* had its URL; the audius call resumed first, the youtube call last
C38_Witness ==
    /\ BothCompleted
    /\ pending = <<>>
    /\ finished[1].track = AU /\ finished[2].track = YT
    /\ queue = <<AU, YT>>
    /\ queueIndex = 1
    /\ currentTrack = YT

(* ------------------------ skipping on playback errors ------------------ *)
\* C40: with shuffle off and repeatMode 'none', an audio 'error' event
\* advances the cursor by at most one, never moves it past the last index,
\* starts a track only when it advances the cursor, and at the last index
\* (or beyond) starts none and leaves the cursor: a run of error events
\* starts at most as many tracks as there are indices after the cursor.
C40_ErrorSkippingStops ==
    [][(last'.op = "audioError" /\ ~shuffle /\ repeatMode = "none")
          => /\ queueIndex' \in {queueIndex, queueIndex + 1}
             /\ queueIndex' # queueIndex => queueIndex' <= Len(queue) - 1
             /\ pending' # pending
                => /\ queueIndex' = queueIndex + 1
                   /\ pending' = Append(pending,
                          [track |-> At(queue, queueIndex'), add |-> FALSE])
             /\ queueIndex >= Len(queue) - 1
                => queueIndex' = queueIndex /\ pending' = pending
      ]_vars

\* an error event on the last of two tracks: the cursor stayed and no track
\* was started
C40_Witness ==
    /\ last = [op |-> "audioError", a |-> -1, b |-> -1, idx |-> 1]
    /\ ~shuffle /\ repeatMode = "none"
    /\ Len(queue) = 2 /\ queueIndex = 1
    /\ pending = <<>>

====
